---- MODULE Spec2Model ----
(***************************************************************************)
(* Model of the job-posting form (CreateJob) and of its simulated JD       *)
(* analysis (analyzeJobDescription).                                        *)
(*                                                                          *)
(* Text is modelled character by character: a string is a sequence of      *)
(* one-character strings, so that trimming, case mapping, regular-          *)
(* expression matching and integer parsing are computed the way the         *)
(* JavaScript code computes them.                                           *)
(***************************************************************************)
EXTENDS Integers, Sequences, FiniteSets, TLC

(***************************************************************************)
(* Characters and the JavaScript string primitives the code uses.           *)
(***************************************************************************)
LowerCaseLetters == <<"a","b","c","d","e","f","g","h","i","j","k","l","m","n","o","p","q","r","s","t","u","v","w","x","y","z">>
UpperCaseLetters == <<"A","B","C","D","E","F","G","H","I","J","K","L","M","N","O","P","Q","R","S","T","U","V","W","X","Y","Z">>
Digits == <<"0","1","2","3","4","5","6","7","8","9">>

\* U+20B9, the rupee sign of the stipend patterns (not a letter: no case).
RupeeSign == "<U+20B9>"

LetterSet == {LowerCaseLetters[k] : k \in 1..26}
DigitSet == {Digits[k] : k \in 1..10}
\* \s of a JavaScript regular expression, and the characters trim() strips.
WhiteSpace == {" ", "\n", "\t"}

LowerOf == [c \in {UpperCaseLetters[k] : k \in 1..26} |->
              LowerCaseLetters[CHOOSE k \in 1..26 : UpperCaseLetters[k] = c]]
UpperOf == [c \in LetterSet |->
              UpperCaseLetters[CHOOSE k \in 1..26 : LowerCaseLetters[k] = c]]
DigitValue == [c \in DigitSet |-> (CHOOSE k \in 1..10 : Digits[k] = c) - 1]

LowerChar(c) == IF c \in DOMAIN LowerOf THEN LowerOf[c] ELSE c
UpperChar(c) == IF c \in DOMAIN UpperOf THEN UpperOf[c] ELSE c

\* String.prototype.toLowerCase / toUpperCase
toLowerCase(s) == [k \in 1..Len(s) |-> LowerChar(s[k])]
toUpperCase(s) == [k \in 1..Len(s) |-> UpperChar(s[k])]

\* const x = v; ... : Body at the value of v, which is computed once.
Let(v, Body(_)) == CHOOSE r \in {Body(x) : x \in {v}} : TRUE

\* String.prototype.trim
trim(s) ==
  IF \A k \in 1..Len(s) : s[k] \in WhiteSpace THEN <<>>
  ELSE LET lo == CHOOSE k \in 1..Len(s) :
                   s[k] \notin WhiteSpace /\ \A j \in 1..(k - 1) : s[j] \in WhiteSpace
           hi == CHOOSE k \in 1..Len(s) :
                   s[k] \notin WhiteSpace /\ \A j \in (k + 1)..Len(s) : s[j] \in WhiteSpace
       IN  SubSeq(s, lo, hi)

\* s.substring(i-1, i-1+Len(w)) === w
StartsAt(s, i, w) ==
  /\ i + Len(w) - 1 <= Len(s)
  /\ \A k \in 1..Len(w) : s[i + k - 1] = w[k]

\* String.prototype.includes (the first character is compared before the rest)
includes(s, w) ==
  \/ w = <<>>
  \/ \E i \in 1..(Len(s) - Len(w) + 1) : s[i] = w[1] /\ StartsAt(s, i, w)

\* Array.prototype.includes
arrayIncludes(arr, x) == \E k \in 1..Len(arr) : arr[k] = x

\* s.split(' ') : the pieces between single spaces (empty pieces are kept).
RECURSIVE splitSpace(_)
splitSpace(s) ==
  LET sp == {k \in 1..Len(s) : s[k] = " "}
  IN  IF sp = {} THEN <<s>>
      ELSE LET k == CHOOSE x \in sp : \A y \in sp : x <= y
           IN  <<SubSeq(s, 1, k - 1)>> \o splitSpace(SubSeq(s, k + 1, Len(s)))

\* arr.join(sep)
RECURSIVE join(_, _)
join(arr, sep) ==
  IF Len(arr) = 0 THEN <<>>
  ELSE IF Len(arr) = 1 THEN arr[1]
  ELSE arr[1] \o sep \o join(Tail(arr), sep)

\* s.replace(/\s+/g, ' ') : every maximal run of white space becomes one space.
collapseSpaces(s) ==
  LET keep == {k \in 1..Len(s) :
                 s[k] \notin WhiteSpace \/ k = 1 \/ s[k - 1] \notin WhiteSpace}
      idx == [n \in 1..Cardinality(keep) |->
                CHOOSE k \in keep : Cardinality({j \in keep : j < k}) = n - 1]
  IN  [n \in 1..Cardinality(keep) |->
         IF s[idx[n]] \in WhiteSpace THEN " " ELSE s[idx[n]]]

\* s.replace(/,/g, '')
RECURSIVE stripCommas(_)
stripCommas(s) ==
  IF s = <<>> THEN <<>>
  ELSE IF Head(s) = "," THEN stripCommas(Tail(s))
  ELSE <<Head(s)>> \o stripCommas(Tail(s))

\* w.charAt(0).toUpperCase() + w.slice(1)
capitalize(w) == IF w = <<>> THEN <<>> ELSE <<UpperChar(w[1])>> \o Tail(w)

\* w.charAt(0).toUpperCase() + w.slice(1).toLowerCase()
capitalizeLower(w) ==
  IF w = <<>> THEN <<>> ELSE <<UpperChar(w[1])>> \o toLowerCase(Tail(w))

\* The value of a string of decimal digits.
RECURSIVE digitsValue(_)
digitsValue(ds) ==
  IF ds = <<>> THEN 0
  ELSE 10 * digitsValue(SubSeq(ds, 1, Len(ds) - 1)) + DigitValue[ds[Len(ds)]]

\* parseInt(s, 10): leading white space is skipped, one sign is accepted, the
\* longest run of digits that follows is the value.  The result is NaN
\* (isNaN, with value 0 as a placeholder) when no digit follows.
parseInt(s) ==
  LET nonws == {k \in 1..Len(s) : s[k] \notin WhiteSpace}
      b == IF nonws = {} THEN Len(s) + 1
           ELSE CHOOSE k \in nonws : \A j \in nonws : k <= j
      signed == b <= Len(s) /\ s[b] \in {"-", "+"}
      d == IF signed THEN b + 1 ELSE b
      stop == {k \in d..(Len(s) + 1) : k = Len(s) + 1 \/ s[k] \notin DigitSet}
      e == CHOOSE k \in stop : \A j \in stop : k <= j
      n == digitsValue(SubSeq(s, d, e - 1))
  IN  IF e = d THEN [isNaN |-> TRUE, value |-> 0]
      ELSE [isNaN |-> FALSE, value |-> IF signed /\ s[b] = "-" THEN 0 - n ELSE n]

\* Number.prototype.toString for an integer.
RECURSIVE natToString(_)
natToString(n) ==
  IF n < 10 THEN <<Digits[n + 1]>>
  ELSE natToString(n \div 10) \o <<Digits[(n % 10) + 1]>>

numberToString(n) == IF n < 0 THEN <<"-">> \o natToString(0 - n) ELSE natToString(n)

\* An optional value (stipend?: number, perks?: string): <<>> is undefined.
Undefined == <<>>
Defined(x) == <<x>>
IsDefined(o) == o # <<>>
ValueOf(o) == o[1]

(***************************************************************************)
(* Regular expressions.  A pattern is a tree.  First(rs, s, i) is the way   *)
(* a backtracking matcher matches the concatenation of the patterns rs at   *)
(* position i of s: the first complete match in the order it tries them     *)
(* (a greedy repeat takes as many iterations as it can first, a lazy one    *)
(* as few, alternatives go left to right), with its end position e and the  *)
(* span [cs, ce) of capture group 1.  All patterns of the code carry the i  *)
(* flag: letters compare by lower case, so literals are written in lower    *)
(* case.                                                                    *)
(***************************************************************************)
Set(cs) == [t |-> "set", cs |-> cs]
Lit(w) == [t |-> "lit", w |-> w]
Cat(rs) == [t |-> "cat", rs |-> rs]
Alt(rs) == [t |-> "alt", rs |-> rs]
\* capture group 1 (the only group the code reads besides match[0])
Cap(r) == [t |-> "cap", r |-> r]
CapOpen == [t |-> "capopen"]
CapClose == [t |-> "capclose"]
\* r{min,max}; max = Unbounded for * and +
Unbounded == 0 - 1
Rep(r, min, max) == [t |-> "rep", r |-> r, min |-> min, max |-> max, greedy |-> TRUE]
LazyRep(r, min, max) == [t |-> "rep", r |-> r, min |-> min, max |-> max, greedy |-> FALSE]
Opt(r) == Rep(r, 0, 1)
Star(r) == Rep(r, 0, Unbounded)
Plus(r) == Rep(r, 1, Unbounded)
\* ^ under the m flag; $ without the m flag
LineStart == [t |-> "bol"]
InputEnd == [t |-> "eol"]

Fail == [ok |-> FALSE, e |-> 0, cs |-> 0, ce |-> 0]

\* the repeat h with one iteration done
OneLess(h) ==
  [h EXCEPT !.min = IF h.min > 0 THEN h.min - 1 ELSE 0,
            !.max = IF h.max = Unbounded THEN Unbounded ELSE h.max - 1]

\* the number of characters of s from position i on that lie in cs
RunLength(s, i, cs) ==
  IF i > Len(s) \/ LowerChar(s[i]) \notin cs THEN 0
  ELSE LET stop == {k \in i..(Len(s) + 1) :
                      k = Len(s) + 1 \/ LowerChar(s[k]) \notin cs}
       IN  (CHOOSE k \in stop : \A j \in stop : k <= j) - i

RECURSIVE First(_, _, _)
First(rs, s, i) ==
  IF rs = <<>> THEN [ok |-> TRUE, e |-> i, cs |-> 0, ce |-> 0]
  ELSE
    LET h == Head(rs)
        rest == Tail(rs)
    IN  CASE h.t = "set" ->
               IF i <= Len(s) /\ LowerChar(s[i]) \in h.cs
               THEN First(rest, s, i + 1) ELSE Fail
          [] h.t = "lit" ->
               IF /\ i + Len(h.w) - 1 <= Len(s)
                  /\ \A k \in 1..Len(h.w) : LowerChar(s[i + k - 1]) = h.w[k]
               THEN First(rest, s, i + Len(h.w)) ELSE Fail
          [] h.t = "bol" ->
               IF i = 1 \/ s[i - 1] = "\n" THEN First(rest, s, i) ELSE Fail
          [] h.t = "eol" ->
               IF i = Len(s) + 1 THEN First(rest, s, i) ELSE Fail
          [] h.t = "cat" -> First(h.rs \o rest, s, i)
          [] h.t = "cap" -> First(<<CapOpen, h.r, CapClose>> \o rest, s, i)
          [] h.t = "capopen" ->
               LET r == First(rest, s, i) IN IF r.ok THEN [r EXCEPT !.cs = i] ELSE Fail
          [] h.t = "capclose" ->
               LET r == First(rest, s, i) IN IF r.ok THEN [r EXCEPT !.ce = i] ELSE Fail
          [] h.t = "alt" ->
               \* the leftmost alternative with which the rest can match
               LET good == {k \in 1..Len(h.rs) : First(<<h.rs[k]>> \o rest, s, i).ok}
               IN  IF good = {} THEN Fail
                   ELSE First(<<h.rs[CHOOSE k \in good : \A j \in good : k <= j]>> \o rest, s, i)
          [] h.t = "rep" /\ h.r.t = "set" ->
               \* a repeated character class: the iteration counts it can take are
               \* min..(the run of class characters, at most max); the greedy
               \* repeat settles on the largest with which the rest can match,
               \* the lazy one on the smallest
               LET run == RunLength(s, i, h.r.cs)
                   most == IF h.max # Unbounded /\ h.max < run THEN h.max ELSE run
                   good == {n \in h.min..most : First(rest, s, i + n).ok}
               IN  IF good = {} THEN Fail
                   ELSE IF h.greedy
                     THEN First(rest, s, i + (CHOOSE n \in good : \A j \in good : n >= j))
                     ELSE First(rest, s, i + (CHOOSE n \in good : \A j \in good : n <= j))
          [] h.t = "rep" /\ h.r.t # "set" ->
               LET more == IF h.max # 0 THEN First(<<h.r, OneLess(h)>> \o rest, s, i) ELSE Fail
                   stop == IF h.min = 0 THEN First(rest, s, i) ELSE Fail
               IN  IF h.greedy THEN (IF more.ok THEN more ELSE stop)
                   ELSE (IF stop.ok THEN stop ELSE more)

\* The characters a match of re can begin with: `any` when it may begin with
\* any character or be empty, else the (lower-case) characters cs.  It only
\* spares the matcher the positions where no match can begin.
RECURSIVE starters(_)
RECURSIVE startersOfAlt(_, _)
starters(re) ==
  CASE re.t = "set" -> [any |-> FALSE, cs |-> re.cs]
    [] re.t = "lit" -> IF re.w = <<>> THEN [any |-> TRUE, cs |-> {}]
                       ELSE [any |-> FALSE, cs |-> {re.w[1]}]
    [] re.t = "cat" -> IF re.rs = <<>> THEN [any |-> TRUE, cs |-> {}]
                       ELSE starters(re.rs[1])
    [] re.t = "alt" -> startersOfAlt(re.rs, 1)
    [] re.t = "cap" -> starters(re.r)
    [] re.t = "rep" -> IF re.min >= 1 THEN starters(re.r) ELSE [any |-> TRUE, cs |-> {}]
    [] OTHER -> [any |-> TRUE, cs |-> {}]
startersOfAlt(rs, k) ==
  IF k > Len(rs) THEN [any |-> FALSE, cs |-> {}]
  ELSE LET a == starters(rs[k])
           b == startersOfAlt(rs, k + 1)
       IN  [any |-> a.any \/ b.any, cs |-> a.cs \cup b.cs]

\* No match (String.prototype.match returned null).
NoMatch == <<>>

\* jd.match(re) for a pattern without the g flag: NoMatch, or the record of
\* match[0] (m0) and match[1] (m1; hasGroup1 is false when group 1 took no
\* part in the match) of the match at the leftmost position where there is
\* one; g1End is the position after group 1.
match(s, re) ==
  Let(starters(re), LAMBDA st :
  Let({i \in 1..(Len(s) + 1) :
         /\ st.any \/ (i <= Len(s) /\ LowerChar(s[i]) \in st.cs)
         /\ First(<<re>>, s, i).ok}, LAMBDA starts :
    IF starts = {} THEN NoMatch
    ELSE LET i == CHOOSE x \in starts : \A y \in starts : x <= y
             r == First(<<re>>, s, i)
         IN  [index |-> i,
              m0 |-> SubSeq(s, i, r.e - 1),
              hasGroup1 |-> r.cs # 0,
              m1 |-> IF r.cs = 0 THEN <<>> ELSE SubSeq(s, r.cs, r.ce - 1),
              g1End |-> r.ce]))

(***************************************************************************)
(* analyzeJobDescription: the simulated extraction.                         *)
(***************************************************************************)
LetterOrSpace == LetterSet \cup WhiteSpace

SKILL_KEYWORDS ==
  <<<<"r","e","a","c","t">>,
     <<"a","n","g","u","l","a","r">>,
     <<"v","u","e">>,
     <<"j","a","v","a","s","c","r","i","p","t">>,
     <<"t","y","p","e","s","c","r","i","p","t">>,
     <<"p","y","t","h","o","n">>,
     <<"j","a","v","a">>,
     <<"n","o","d","e",".","j","s">>,
     <<"n","o","d","e","j","s">>,
     <<"e","x","p","r","e","s","s">>,
     <<"m","o","n","g","o","d","b">>,
     <<"s","q","l">>,
     <<"m","y","s","q","l">>,
     <<"p","o","s","t","g","r","e","s","q","l">>,
     <<"a","w","s">>,
     <<"d","o","c","k","e","r">>,
     <<"k","u","b","e","r","n","e","t","e","s">>,
     <<"g","i","t">>,
     <<"h","t","m","l">>,
     <<"c","s","s">>,
     <<"t","a","i","l","w","i","n","d">>,
     <<"f","i","g","m","a">>,
     <<"p","h","o","t","o","s","h","o","p">>,
     <<"e","x","c","e","l">>,
     <<"p","o","w","e","r"," ","b","i">>,
     <<"t","a","b","l","e","a","u">>,
     <<"m","a","c","h","i","n","e"," ","l","e","a","r","n","i","n","g">>,
     <<"m","l">>,
     <<"a","i">>,
     <<"d","a","t","a"," ","a","n","a","l","y","s","i","s">>,
     <<"d","a","t","a"," ","s","c","i","e","n","c","e">>,
     <<"c","o","m","m","u","n","i","c","a","t","i","o","n">>,
     <<"t","e","a","m","w","o","r","k">>,
     <<"p","r","o","b","l","e","m"," ","s","o","l","v","i","n","g">>,
     <<"a","g","i","l","e">>,
     <<"s","c","r","u","m">>,
     <<"a","p","i">>,
     <<"r","e","s","t">>,
     <<"g","r","a","p","h","q","l">>,
     <<"c","+","+">>,
     <<"c","#">>,
     <<".","n","e","t">>,
     <<"f","l","u","t","t","e","r">>,
     <<"r","e","a","c","t"," ","n","a","t","i","v","e">>,
     <<"s","w","i","f","t">>,
     <<"k","o","t","l","i","n">>,
     <<"a","n","d","r","o","i","d">>,
     <<"i","o","s">>,
     <<"l","i","n","u","x">>,
     <<"d","e","v","o","p","s">>,
     <<"c","i","/","c","d">>,
     <<"t","e","s","t","i","n","g">>,
     <<"q","a">>,
     <<"s","e","l","e","n","i","u","m">>>>

\* the tokens rendered fully upper-case
UPPERCASE_SKILL_WORDS == <<<<"a","i">>,
     <<"m","l">>,
     <<"q","a">>,
     <<"a","p","i">>,
     <<"s","q","l">>,
     <<"a","w","s">>,
     <<"c","s","s">>,
     <<"h","t","m","l">>>>

titlePatterns ==
  << \* /(?:looking for|hiring|seeking|need|require)\s+(?:a\s+)?([a-z\s]+(?:intern|developer|engineer|analyst|designer|manager|executive|associate))/i
     Cat(<<Alt(<<Lit(<<"l","o","o","k","i","n","g"," ","f","o","r">>), Lit(<<"h","i","r","i","n","g">>), Lit(<<"s","e","e","k","i","n","g">>), Lit(<<"n","e","e","d">>), Lit(<<"r","e","q","u","i","r","e">>)>>),
           Plus(Set(WhiteSpace)),
           Opt(Cat(<<Lit(<<"a">>), Plus(Set(WhiteSpace))>>)),
           Cap(Cat(<<Plus(Set(LetterOrSpace)),
                     Alt(<<Lit(<<"i","n","t","e","r","n">>), Lit(<<"d","e","v","e","l","o","p","e","r">>), Lit(<<"e","n","g","i","n","e","e","r">>), Lit(<<"a","n","a","l","y","s","t">>), Lit(<<"d","e","s","i","g","n","e","r">>), Lit(<<"m","a","n","a","g","e","r">>), Lit(<<"e","x","e","c","u","t","i","v","e">>), Lit(<<"a","s","s","o","c","i","a","t","e">>)>>)>>))>>),
     \* /(?:position|role|job title|opening)[\s:]+([a-z\s]+(?:intern|developer|engineer|analyst|designer|manager))/i
     Cat(<<Alt(<<Lit(<<"p","o","s","i","t","i","o","n">>), Lit(<<"r","o","l","e">>), Lit(<<"j","o","b"," ","t","i","t","l","e">>), Lit(<<"o","p","e","n","i","n","g">>)>>),
           Plus(Set(WhiteSpace \cup {":"})),
           Cap(Cat(<<Plus(Set(LetterOrSpace)),
                     Alt(<<Lit(<<"i","n","t","e","r","n">>), Lit(<<"d","e","v","e","l","o","p","e","r">>), Lit(<<"e","n","g","i","n","e","e","r">>), Lit(<<"a","n","a","l","y","s","t">>), Lit(<<"d","e","s","i","g","n","e","r">>), Lit(<<"m","a","n","a","g","e","r">>)>>)>>))>>),
     \* /^([a-z\s]+(?:intern|developer|engineer|analyst|designer|manager|executive))/im
     Cat(<<LineStart,
           Cap(Cat(<<Plus(Set(LetterOrSpace)),
                     Alt(<<Lit(<<"i","n","t","e","r","n">>), Lit(<<"d","e","v","e","l","o","p","e","r">>), Lit(<<"e","n","g","i","n","e","e","r">>), Lit(<<"a","n","a","l","y","s","t">>), Lit(<<"d","e","s","i","g","n","e","r">>), Lit(<<"m","a","n","a","g","e","r">>), Lit(<<"e","x","e","c","u","t","i","v","e">>)>>)>>))>>) >>

locationPatterns ==
  << \* /(?:location|based in|office|work from)[\s:]+([a-z\s,]+?)(?:\.|,|$|\n)/i
     Cat(<<Alt(<<Lit(<<"l","o","c","a","t","i","o","n">>), Lit(<<"b","a","s","e","d"," ","i","n">>), Lit(<<"o","f","f","i","c","e">>), Lit(<<"w","o","r","k"," ","f","r","o","m">>)>>),
           Plus(Set(WhiteSpace \cup {":"})),
           Cap(LazyRep(Set(LetterOrSpace \cup {","}), 1, Unbounded)),
           Alt(<<Lit(<<".">>), Lit(<<",">>), InputEnd, Lit(<<"\n">>)>>)>>),
     \* /(bangalore|...|gurugram)[,\s]*(india|karnataka|maharashtra|telangana|tamil nadu)?/i
     Cat(<<Cap(Alt(<<Lit(<<"b","a","n","g","a","l","o","r","e">>), Lit(<<"b","e","n","g","a","l","u","r","u">>), Lit(<<"m","u","m","b","a","i">>), Lit(<<"d","e","l","h","i">>), Lit(<<"h","y","d","e","r","a","b","a","d">>), Lit(<<"c","h","e","n","n","a","i">>), Lit(<<"p","u","n","e">>), Lit(<<"k","o","l","k","a","t","a">>), Lit(<<"n","o","i","d","a">>), Lit(<<"g","u","r","g","a","o","n">>), Lit(<<"g","u","r","u","g","r","a","m">>)>>)),
           Star(Set(WhiteSpace \cup {","})),
           Opt(Alt(<<Lit(<<"i","n","d","i","a">>), Lit(<<"k","a","r","n","a","t","a","k","a">>), Lit(<<"m","a","h","a","r","a","s","h","t","r","a">>), Lit(<<"t","e","l","a","n","g","a","n","a">>), Lit(<<"t","a","m","i","l"," ","n","a","d","u">>)>>))>>),
     \* /(?:remote|work from home|wfh)/i
     Alt(<<Lit(<<"r","e","m","o","t","e">>), Lit(<<"w","o","r","k"," ","f","r","o","m"," ","h","o","m","e">>), Lit(<<"w","f","h">>)>>) >>

intakePatterns ==
  << \* /(\d+)\s*(?:positions?|openings?|vacancies?|interns?|candidates?)/i
     Cat(<<Cap(Plus(Set(DigitSet))),
           Star(Set(WhiteSpace)),
           Alt(<<Cat(<<Lit(<<"p","o","s","i","t","i","o","n">>), Opt(Lit(<<"s">>))>>),
                 Cat(<<Lit(<<"o","p","e","n","i","n","g">>), Opt(Lit(<<"s">>))>>),
                 Cat(<<Lit(<<"v","a","c","a","n","c","i","e">>), Opt(Lit(<<"s">>))>>),
                 Cat(<<Lit(<<"i","n","t","e","r","n">>), Opt(Lit(<<"s">>))>>),
                 Cat(<<Lit(<<"c","a","n","d","i","d","a","t","e">>), Opt(Lit(<<"s">>))>>)>>)>>),
     \* /(?:hiring|need|require|looking for)\s*(\d+)/i
     Cat(<<Alt(<<Lit(<<"h","i","r","i","n","g">>), Lit(<<"n","e","e","d">>), Lit(<<"r","e","q","u","i","r","e">>), Lit(<<"l","o","o","k","i","n","g"," ","f","o","r">>)>>),
           Star(Set(WhiteSpace)),
           Cap(Plus(Set(DigitSet)))>>),
     \* /(?:positions?|openings?)\s*(?:available)?[\s:]*(\d+)/i
     Cat(<<Alt(<<Cat(<<Lit(<<"p","o","s","i","t","i","o","n">>), Opt(Lit(<<"s">>))>>),
                 Cat(<<Lit(<<"o","p","e","n","i","n","g">>), Opt(Lit(<<"s">>))>>)>>),
           Star(Set(WhiteSpace)),
           Opt(Lit(<<"a","v","a","i","l","a","b","l","e">>)),
           Star(Set(WhiteSpace \cup {":"})),
           Cap(Plus(Set(DigitSet)))>>) >>

\* (\d{1,3}(?:,\d{3})*|\d+)
stipendAmount ==
  Cap(Alt(<<Cat(<<Rep(Set(DigitSet), 1, 3),
                  Star(Cat(<<Lit(<<",">>), Rep(Set(DigitSet), 3, 3)>>))>>),
            Plus(Set(DigitSet))>>))

\* (?:rs\.?|inr|<rupee sign>)
stipendCurrency ==
  Alt(<<Cat(<<Lit(<<"r","s">>), Opt(Lit(<<".">>))>>), Lit(<<"i","n","r">>), Lit(<<RupeeSign>>)>>)

stipendPatterns ==
  << \* /(?:stipend|salary|compensation|pay)[\s:]*(?:rs\.?|inr|<rupee>)?\s*(\d{1,3}(?:,\d{3})*|\d+)(?:k|K)?/i
     Cat(<<Alt(<<Lit(<<"s","t","i","p","e","n","d">>), Lit(<<"s","a","l","a","r","y">>), Lit(<<"c","o","m","p","e","n","s","a","t","i","o","n">>), Lit(<<"p","a","y">>)>>),
           Star(Set(WhiteSpace \cup {":"})),
           Opt(stipendCurrency),
           Star(Set(WhiteSpace)),
           stipendAmount,
           Opt(Alt(<<Lit(<<"k">>), Lit(<<"k">>)>>))>>),
     \* /(?:rs\.?|inr|<rupee>)\s*(\d{1,3}(?:,\d{3})*|\d+)(?:k|K)?\s*(?:per month|\/month|p\.m\.?|pm)/i
     Cat(<<stipendCurrency,
           Star(Set(WhiteSpace)),
           stipendAmount,
           Opt(Alt(<<Lit(<<"k">>), Lit(<<"k">>)>>)),
           Star(Set(WhiteSpace)),
           Alt(<<Lit(<<"p","e","r"," ","m","o","n","t","h">>), Lit(<<"/","m","o","n","t","h">>),
                 Cat(<<Lit(<<"p",".","m">>), Opt(Lit(<<".">>))>>), Lit(<<"p","m">>)>>)>>) >>

perksKeywords ==
  <<<<"c","e","r","t","i","f","i","c","a","t","e">>,
     <<"l","e","t","t","e","r"," ","o","f"," ","r","e","c","o","m","m","e","n","d","a","t","i","o","n">>,
     <<"l","o","r">>,
     <<"f","l","e","x","i","b","l","e">>,
     <<"r","e","m","o","t","e">>,
     <<"w","f","h">>,
     <<"w","o","r","k"," ","f","r","o","m"," ","h","o","m","e">>,
     <<"m","e","n","t","o","r","s","h","i","p">>,
     <<"t","r","a","i","n","i","n","g">>,
     <<"p","p","o">>,
     <<"p","r","e","-","p","l","a","c","e","m","e","n","t">>,
     <<"b","o","n","u","s">>,
     <<"h","e","a","l","t","h"," ","i","n","s","u","r","a","n","c","e">>,
     <<"s","n","a","c","k","s">>,
     <<"m","e","a","l","s">>,
     <<"t","e","a","m"," ","o","u","t","i","n","g","s">>>>

\* a loop that keeps the pattern matching leftmost in the text (of patterns
\* matching at the same place, the first)
leftmostMatch(jd, patterns, k) ==
  Let([j \in k..Len(patterns) |-> match(jd, patterns[j])], LAMBDA ms :
    LET hits == {j \in k..Len(patterns) : ms[j] # NoMatch}
        best == CHOOSE j \in hits : \A i \in hits :
                  ms[j].index < ms[i].index \/ (ms[j].index = ms[i].index /\ j <= i)
    IN  IF hits = {} THEN [pattern |-> 0, m |-> NoMatch]
        ELSE [pattern |-> best, m |-> ms[best]])

\* The first pattern of `patterns` (from index k on) that matches jd, with its
\* match: the for ... if (match) { ...; break; } loops.
RECURSIVE firstMatch(_, _, _)
firstMatch(jd, patterns, k) ==
  IF k > Len(patterns) THEN [pattern |-> 0, m |-> NoMatch]
  ELSE Let(match(jd, patterns[k]), LAMBDA m :
         IF m # NoMatch THEN [pattern |-> k, m |-> m]
         ELSE firstMatch(jd, patterns, k + 1))

\* arr.map(f).join(' ') over the pieces of s.split(' ')
mapWords(s, F(_)) ==
  LET ws == splitSpace(s) IN join([k \in 1..Len(ws) |-> F(ws[k])], <<" ">>)

titleFromMatch(m) == mapWords(collapseSpaces(trim(m.m1)), capitalize)

\* a fallback that asks for backend before frontend
titleFallbackBackendFirst(lowerJD) ==
  IF includes(lowerJD, <<"s","o","f","t","w","a","r","e">>) /\ includes(lowerJD, <<"i","n","t","e","r","n">>)
    THEN <<"S","o","f","t","w","a","r","e"," ","D","e","v","e","l","o","p","m","e","n","t"," ","I","n","t","e","r","n">>
  ELSE IF includes(lowerJD, <<"b","a","c","k","e","n","d">>) THEN <<"B","a","c","k","e","n","d"," ","D","e","v","e","l","o","p","e","r">>
  ELSE IF includes(lowerJD, <<"f","r","o","n","t","e","n","d">>) THEN <<"F","r","o","n","t","e","n","d"," ","D","e","v","e","l","o","p","e","r">>
  ELSE <<"I","n","t","e","r","n">>

titleFallback(lowerJD) ==
  IF includes(lowerJD, <<"s","o","f","t","w","a","r","e">>) /\ includes(lowerJD, <<"i","n","t","e","r","n">>)
    THEN <<"S","o","f","t","w","a","r","e"," ","D","e","v","e","l","o","p","m","e","n","t"," ","I","n","t","e","r","n">>
  ELSE IF includes(lowerJD, <<"f","r","o","n","t","e","n","d">>) THEN <<"F","r","o","n","t","e","n","d"," ","D","e","v","e","l","o","p","e","r">>
  ELSE IF includes(lowerJD, <<"b","a","c","k","e","n","d">>) THEN <<"B","a","c","k","e","n","d"," ","D","e","v","e","l","o","p","e","r">>
  ELSE IF includes(lowerJD, <<"f","u","l","l"," ","s","t","a","c","k">>) \/ includes(lowerJD, <<"f","u","l","l","s","t","a","c","k">>)
    THEN <<"F","u","l","l"," ","S","t","a","c","k"," ","D","e","v","e","l","o","p","e","r">>
  ELSE IF includes(lowerJD, <<"d","a","t","a"," ","a","n","a","l","y","s","t">>) THEN <<"D","a","t","a"," ","A","n","a","l","y","s","t">>
  ELSE IF includes(lowerJD, <<"d","a","t","a"," ","s","c","i","e","n","c","e">>) THEN <<"D","a","t","a"," ","S","c","i","e","n","c","e"," ","I","n","t","e","r","n">>
  ELSE IF includes(lowerJD, <<"m","a","r","k","e","t","i","n","g">>) THEN <<"M","a","r","k","e","t","i","n","g"," ","I","n","t","e","r","n">>
  ELSE IF includes(lowerJD, <<"d","e","s","i","g","n">>) THEN <<"D","e","s","i","g","n"," ","I","n","t","e","r","n">>
  ELSE <<"I","n","t","e","r","n">>

\* a title loop that takes the pattern matching leftmost in the text
extractTitleLeftmost(jd) ==
  Let([k \in 1..Len(titlePatterns) |-> match(jd, titlePatterns[k])], LAMBDA ms :
    LET hits == {k \in 1..Len(titlePatterns) : ms[k] # NoMatch}
        best == CHOOSE k \in hits : \A j \in hits :
                  ms[k].index < ms[j].index \/ (ms[k].index = ms[j].index /\ k <= j)
    IN  IF hits = {} THEN titleFallback(toLowerCase(jd)) ELSE titleFromMatch(ms[best]))

extractTitle(jd) ==
  Let(firstMatch(jd, titlePatterns, 1), LAMBDA f :
  Let(IF f.pattern = 0 THEN <<>> ELSE titleFromMatch(f.m), LAMBDA title :
    IF title = <<>> THEN Let(toLowerCase(jd), titleFallback) ELSE title))

\* a display form that capitalises every token alike
formatSkillWordCapitalized(w) == capitalize(w)

formatSkillWord(w) ==
  IF arrayIncludes(UPPERCASE_SKILL_WORDS, toLowerCase(w)) THEN toUpperCase(w)
  ELSE capitalize(w)

formatSkill(skill) == mapWords(skill, formatSkillWord)

\* the skills found among SKILL_KEYWORDS[k..], appended to `found`
RECURSIVE scanSkills(_, _, _)
scanSkills(lowerJD, k, found) ==
  IF k > Len(SKILL_KEYWORDS) THEN found
  ELSE LET skill == SKILL_KEYWORDS[k]
           formatted == formatSkill(skill)
       IN  scanSkills(lowerJD, k + 1,
             IF includes(lowerJD, toLowerCase(skill)) /\ ~arrayIncludes(found, formatted)
             THEN Append(found, formatted) ELSE found)

MAX_SKILLS == 10

\* arr.slice(0, n)
sliceFirst(arr, n) == SubSeq(arr, 1, IF Len(arr) < n THEN Len(arr) ELSE n)

\* a skills extraction that returns every skill found
extractSkillsUncapped(jd) ==
  Let(toLowerCase(jd), LAMBDA lowerJD : scanSkills(lowerJD, 1, <<>>))

extractSkills(jd) ==
  Let(toLowerCase(jd), LAMBDA lowerJD : sliceFirst(scanSkills(lowerJD, 1, <<>>), MAX_SKILLS))

locationFromMatch(m) ==
  LET raw == IF includes(m.m0, <<"r","e","m","o","t","e">>) \/ includes(m.m0, <<"w","f","h">>)
             THEN <<"R","e","m","o","t","e">>
             ELSE IF m.hasGroup1 THEN trim(m.m1) ELSE <<>>
  IN  mapWords(raw, capitalizeLower)

extractLocation(jd) ==
  Let(firstMatch(jd, locationPatterns, 1), LAMBDA f :
    IF f.pattern = 0 THEN <<>> ELSE locationFromMatch(f.m))

DEFAULT_INTAKE == 1
MAX_INTAKE == 100

\* parseInt(match[1], 10) || 1
intakeFromMatch(m) ==
  LET n == parseInt(m.m1)
  IN  IF n.isNaN \/ n.value = 0 THEN DEFAULT_INTAKE ELSE n.value

\* an intake that is not capped
uncappedIntake(n) == n

\* Math.min(intake, 100)
capIntake(n) == IF n < MAX_INTAKE THEN n ELSE MAX_INTAKE

extractIntake(jd) ==
  Let(firstMatch(jd, intakePatterns, 1), LAMBDA f :
    capIntake(IF f.pattern = 0 THEN DEFAULT_INTAKE ELSE intakeFromMatch(f.m)))

\* a test that looks for the k in the whole document
documentHasK(jd, m) ==
  /\ includes(toLowerCase(jd), toLowerCase(m.m0))
  /\ (includes(jd, <<"k">>) \/ includes(jd, <<"K">>))

\* the test that decides the multiplication by 1000
stipendHasK(jd, m) ==
  /\ includes(toLowerCase(jd), toLowerCase(m.m0))
  /\ (includes(m.m0, <<"k">>) \/ includes(m.m0, <<"K">>))

STIPEND_K_FACTOR == 1000

\* match[1] is a non-empty string of digits and commas that starts with a
\* digit, so parseInt never yields NaN here.
stipendFromMatch(jd, m) ==
  LET amount == stripCommas(m.m1)
      n == parseInt(amount).value
  IN  IF stipendHasK(jd, m) THEN n * STIPEND_K_FACTOR ELSE n

extractStipend(jd) ==
  Let(firstMatch(jd, stipendPatterns, 1), LAMBDA f :
    IF f.pattern = 0 THEN Undefined ELSE Defined(stipendFromMatch(jd, f.m)))

\* a label that is the capitalised keyword for every keyword
formatPerkCapitalized(perk) == mapWords(perk, capitalize)

formatPerk(perk) ==
  IF perk = <<"l","o","r">> THEN <<"L","e","t","t","e","r"," ","o","f"," ","R","e","c","o","m","m","e","n","d","a","t","i","o","n">>
  ELSE IF perk = <<"p","p","o">> THEN <<"P","P","O"," ","(","P","r","e","-","P","l","a","c","e","m","e","n","t"," ","O","f","f","e","r",")">>
  ELSE IF perk = <<"w","f","h">> THEN <<"W","o","r","k"," ","f","r","o","m"," ","H","o","m","e">>
  ELSE mapWords(perk, capitalize)

RECURSIVE scanPerks(_, _, _)
scanPerks(lowerJD, k, found) ==
  IF k > Len(perksKeywords) THEN found
  ELSE LET perk == perksKeywords[k]
           formatted == formatPerk(perk)
       IN  scanPerks(lowerJD, k + 1,
             IF includes(lowerJD, perk) /\ ~arrayIncludes(found, formatted)
             THEN Append(found, formatted) ELSE found)

extractPerks(jd) ==
  Let(toLowerCase(jd), LAMBDA lowerJD :
  Let(scanPerks(lowerJD, 1, <<>>), LAMBDA foundPerks :
    IF Len(foundPerks) > 0 THEN Defined(join(foundPerks, <<","," ">>)) ELSE Undefined))

\* Where the body can throw a TypeError, which rejects the promise: a method
\* call on match[1] when group 1 took no part in the match.
\* match[1].trim() at the title
titleThrows(jd) ==
  Let(firstMatch(jd, titlePatterns, 1), LAMBDA f : f.pattern # 0 /\ ~f.m.hasGroup1)

\* match[1].trim() without the optional chaining
locationTrimThrowsUnchained(m) == ~m.hasGroup1

\* match[1]?.trim(): undefined when group 1 took no part, no TypeError
locationTrimThrows(m) == FALSE

locationThrows(jd) ==
  Let(firstMatch(jd, locationPatterns, 1), LAMBDA f :
    /\ f.pattern # 0
    /\ ~(includes(f.m.m0, <<"r","e","m","o","t","e">>) \/ includes(f.m.m0, <<"w","f","h">>))
    /\ locationTrimThrows(f.m))

\* match[1].replace(/,/g, '') at the stipend
stipendThrows(jd) ==
  Let(firstMatch(jd, stipendPatterns, 1), LAMBDA f : f.pattern # 0 /\ ~f.m.hasGroup1)

\* the promise of analyzeJobDescription(jd) rejects
analysisRejects(jd) ==
  Let(jd, LAMBDA text : titleThrows(text) \/ locationThrows(text) \/ stipendThrows(text))

\* The JDAnalysisResult the promise resolves with.
analyzeJobDescription(jd) ==
  Let(jd, LAMBDA text :
    [title |-> extractTitle(text),
     skills |-> extractSkills(text),
     location |-> extractLocation(text),
     intake |-> extractIntake(text),
     stipend |-> extractStipend(text),
     perks |-> extractPerks(text)])

(***************************************************************************)
(* The CreateJob form.                                                      *)
(***************************************************************************)
VARIABLES
  \* useState of CreateJob
  jobDescription, isAnalyzing, hasAnalyzed,
  title, titleSuggested,
  skillInput, skills, skillsSuggested,
  locationLabel, locationSuggested,
  intake, intakeSuggested,
  stipend, stipendSuggested,
  perks, perksSuggested,
  error,
  \* the analyzeJobDescription call handleAnalyzeJD awaits: Undefined, or
  \* Defined(the text it was called with)
  analysisCall,
  \* CompanyContext: state.company is set, state.isLoading
  company, isLoading,
  \* where handleSubmit stands: "idle", or awaiting "createJob" / "processJob"
  submitPC,
  \* the records createJob was called with, the job ids processJob was called
  \* with, and whether navigate('/company/jobs/status') has run
  createJobCalls, processJobCalls, navigated,
  \* history: the fields the user has edited directly; the result of the last
  \* merge and how many times in a row it was merged with no change of a
  \* field in between; the number of user events so far
  userEdited, lastMerged, userActions,
  \* the results of analyzeJobDescription, computed once
  analysisMemo,
  \* the extractor on its own: the text handed to analyzeJobDescription, the
  \* result the last call resolved with, and the delay of each call so far
  extractInput, extractOutput, extractDelays,
  \* the browser session: the tokens in window.localStorage, the requests made
  \* through the axios instance `api`, window.location.href, and state.user of
  \* UIProvider
  localStorage, requests, location, user,
  \* CompanyProvider: its state, and the calls of its actions so far
  companyState, companyCalls

formValues == <<title, skills, locationLabel, intake, stipend, perks>>
formFlags == <<titleSuggested, skillsSuggested, locationSuggested,
               intakeSuggested, stipendSuggested, perksSuggested>>
formFields == <<formValues, formFlags>>
submission == <<submitPC, createJobCalls, processJobCalls, navigated>>
extractor == <<extractInput, extractOutput, extractDelays, analysisMemo>>
session == <<localStorage, requests, location, user>>
provider == <<companyState, companyCalls>>
others == <<session, provider>>
vars == <<jobDescription, isAnalyzing, hasAnalyzed, formFields, skillInput, error,
          analysisCall, company, isLoading, submission,
          userEdited, lastMerged, userActions, extractor, others>>

MIN_JD_LENGTH == 100
\* the maxLength attributes of the inputs
JD_MAX_LENGTH == 5000
TITLE_MAX_LENGTH == 100
SKILL_MAX_LENGTH == 50
LOCATION_MAX_LENGTH == 100
PERKS_MAX_LENGTH == 500
\* the min and max attributes of the number inputs
INTAKE_MIN == 1
INTAKE_MAX == 1000
STIPEND_MIN == 0

ERR_ANALYZE_SHORT == "Please enter a more detailed job description (at least 100 characters)"
ERR_ANALYZE_FAILED == "Failed to analyze job description. Please try again."
ERR_JD_REQUIRED == "A detailed job description is required (at least 100 characters)"
ERR_TITLE == "Job title is required"
ERR_SKILLS == "At least one skill is required"
ERR_LOCATION == "Location is required"
ERR_INTAKE == "Intake capacity must be at least 1"
ERR_CREATE_FAILED == "Failed to create job. Please try again."
NO_ERROR == ""

(***************************************************************************)
(* What the user can type.                                                  *)
(***************************************************************************)
\* the bound on the number of user events in one behaviour
MaxUserActions == 4

Repeat(c, n) == [k \in 1..n |-> c]

JD_FULL == <<"W","e"," ","a","r","e"," ","h","i","r","i","n","g"," ","a"," ","F","r","o","n","t","e","n","d"," ","D","e","v","e","l","o","p","e","r"," ","I","n","t","e","r","n"," ","f","o","r"," ","2"," ","p","o","s","i","t","i","o","n","s"," ","i","n"," ","B","a","n","g","a","l","o","r","e","."," ","S","t","i","p","e","n","d"," ","1","5","k"," ","p","e","r"," ","m","o","n","t","h","."," ","S","k","i","l","l","s",":"," ","R","e","a","c","t",","," ","T","y","p","e","S","c","r","i","p","t",","," ","C","S","S","."," ","P","e","r","k","s",":"," ","c","e","r","t","i","f","i","c","a","t","e",","," ","f","l","e","x","i","b","l","e"," ","h","o","u","r","s",".">>
JD_OTHER == <<"L","o","o","k","i","n","g"," ","f","o","r"," ","a"," ","D","a","t","a"," ","A","n","a","l","y","s","t","."," ","3"," ","o","p","e","n","i","n","g","s","."," ","L","o","c","a","t","i","o","n",":"," ","P","u","n","e","."," ","S","a","l","a","r","y",":"," ","2","0",",","0","0","0"," ","p","e","r"," ","m","o","n","t","h","."," ","S","k","i","l","l","s",":"," ","S","Q","L",","," ","E","x","c","e","l","."," ","M","e","n","t","o","r","s","h","i","p",".">>
JD_BRIEF == <<"H","i","r","i","n","g"," ","2"," ","S","Q","L"," ","i","n","t","e","r","n","s"," ","i","n"," ","P","u","n","e">>
\* 99 characters
JD_SHORT == JD_BRIEF \o Repeat("=", 71)
\* 108 characters, 28 after trim
JD_PADDED == JD_BRIEF \o Repeat(" ", 80)
\* 100 characters with nothing to extract
JD_BARE == Repeat("=", 100)
\* 5001 characters
JD_OVERLONG == Repeat("=", 5001)

\* 124 characters, with a stipend of 0 and a capitalised Remote
JD_UNPAID == <<"W","e"," ","a","r","e"," ","h","i","r","i","n","g"," ","a"," ","M","a","r","k","e","t","i","n","g"," ","I","n","t","e","r","n","."," ","R","e","m","o","t","e",","," ","u","n","p","a","i","d"," ","i","n","t","e","r","n","s","h","i","p"," ","(","s","t","i","p","e","n","d",":"," ","0",")","."," ","C","e","r","t","i","f","i","c","a","t","e"," ","p","r","o","v","i","d","e","d"," ","o","n"," ","c","o","m","p","l","e","t","i","o","n"," ","o","f"," ","t","h","e"," ","i","n","t","e","r","n","s","h","i","p",".">>

JDInputList ==
  << <<>>, JD_FULL, JD_OTHER, JD_SHORT, JD_PADDED, JD_BARE, JD_OVERLONG, JD_UNPAID >>
JDInputs == {JDInputList[k] : k \in DOMAIN JDInputList}
TitleInputs == {<<>>, <<" ","Q","A"," ","L","e","a","d"," ">>}
LocationInputs == {<<" ">>, <<"G","o","a">>}
IntakeInputs == {<<>>, <<"0">>, <<"7">>}
StipendInputs == {<<>>, <<"5","0","0">>}
PerksInputs == {<<>>, <<"S","n","a","c","k","s">>}
SkillInputs == {<<" ">>, <<"G","o"," ">>, <<"R","e","a","c","t">>}

\* maxLength={n} of an input: the browser keeps at most n characters
maxLength(v, n) == SubSeq(v, 1, IF Len(v) < n THEN Len(v) ELSE n)

\* the k-th text the job description can hold
JDText(k) == maxLength(JDInputList[k], JD_MAX_LENGTH)

\* await analyzeJobDescription(jd): the result is a function of the text alone,
\* and analysisMemo[k] holds it for the k-th text the form can hold
analysisOutcome(jd) == analysisMemo[CHOOSE k \in DOMAIN JDInputList : JDText(k) = jd]
analysisResult(jd) == analysisOutcome(jd).result
analysisRejected(jd) == analysisOutcome(jd).rejects

(***************************************************************************)
(* Render: the disabled attributes.                                         *)
(***************************************************************************)
jdCharCount == Len(jobDescription)
isJDValid == jdCharCount >= MIN_JD_LENGTH /\ jdCharCount <= JD_MAX_LENGTH

\* disabled={isLoading || isAnalyzing} of the inputs
inputsDisabled == isLoading \/ isAnalyzing
\* an Analyze button that stays enabled while an analysis runs
analyzeButtonDisabledWhileIdle == ~isJDValid \/ isLoading
analyzeButtonDisabled == ~isJDValid \/ isAnalyzing \/ isLoading
addSkillButtonDisabled == trim(skillInput) = <<>> \/ isLoading \/ isAnalyzing
submitButtonDisabled ==
  \/ isLoading
  \/ isAnalyzing
  \/ trim(jobDescription) = <<>>
  \/ jdCharCount < MIN_JD_LENGTH
  \/ trim(title) = <<>>
  \/ Len(skills) = 0
  \/ trim(locationLabel) = <<>>
  \/ intake = <<>>

\* The form has no noValidate attribute, so a submission goes through the
\* constraint validation of its inputs first: a number input that is not
\* empty must hold a number within its min and max (the values typed here
\* are integers, so the default step of 1 is met).
intakeInputValid ==
  \/ intake = <<>>
  \/ LET n == parseInt(intake)
     IN  ~n.isNaN /\ n.value >= INTAKE_MIN /\ n.value <= INTAKE_MAX
stipendInputValid ==
  \/ stipend = <<>>
  \/ LET n == parseInt(stipend) IN ~n.isNaN /\ n.value >= STIPEND_MIN
formValid == intakeInputValid /\ stipendInputValid

\* the component is mounted until handleSubmit navigates away
mounted == ~navigated

\* window.localStorage with none of the three tokens in it
noTokens ==
  [aura_access_token |-> Undefined, aura_refresh_token |-> Undefined,
   aura_company_token |-> Undefined]

\* the page before any request is made: useState of UIProvider has user: null
sessionAtRest ==
  /\ localStorage = noTokens /\ requests = <<>>
  /\ location = "/" /\ user = Undefined

\* useState of CompanyProvider
providerAtRest ==
  /\ companyState = [isLoading |-> FALSE, company |-> Undefined, jobs |-> <<>>]
  /\ companyCalls = <<>>

Init ==
  /\ jobDescription = <<>> /\ isAnalyzing = FALSE /\ hasAnalyzed = FALSE
  /\ title = <<>> /\ titleSuggested = FALSE
  /\ skillInput = <<>> /\ skills = <<>> /\ skillsSuggested = FALSE
  /\ locationLabel = <<>> /\ locationSuggested = FALSE
  /\ intake = <<>> /\ intakeSuggested = FALSE
  /\ stipend = <<>> /\ stipendSuggested = FALSE
  /\ perks = <<>> /\ perksSuggested = FALSE
  /\ error = NO_ERROR
  /\ analysisCall = Undefined
  /\ company = FALSE /\ isLoading = FALSE
  /\ submitPC = "idle" /\ createJobCalls = <<>> /\ processJobCalls = <<>>
  /\ navigated = FALSE
  /\ userEdited = {} /\ lastMerged = [result |-> Undefined, times |-> 0]
  /\ userActions = 0
  /\ analysisMemo = [k \in DOMAIN JDInputList |->
                       [rejects |-> analysisRejects(JDText(k)),
                        result |-> analyzeJobDescription(JDText(k))]]
  /\ extractInput = Undefined /\ extractOutput = Undefined /\ extractDelays = <<>>
  /\ sessionAtRest /\ providerAtRest

\* a user event: the component is mounted and the budget of events is not spent
UserEvent ==
  /\ mounted
  /\ userActions < MaxUserActions
  /\ userActions' = userActions + 1

\* a direct edit of `field` that changed the form
Edited(field) ==
  /\ userEdited' = userEdited \cup {field}
  /\ lastMerged' = [result |-> Undefined, times |-> 0]

(***************************************************************************)
(* The onChange handlers.                                                   *)
(***************************************************************************)
\* an onChange of the textarea that leaves hasAnalyzed alone
ChangeJDKeepingAnalyzed(v) ==
  /\ UserEvent /\ ~inputsDisabled
  /\ maxLength(v, JD_MAX_LENGTH) # jobDescription
  /\ jobDescription' = maxLength(v, JD_MAX_LENGTH)
  /\ UNCHANGED <<isAnalyzing, hasAnalyzed, formFields, skillInput, error, analysisCall,
                 company, isLoading, submission, userEdited, lastMerged, extractor, others>>

\* Textarea jd onChange: the text changed (to at most maxLength characters)
ChangeJD(v) ==
  /\ UserEvent /\ ~inputsDisabled
  /\ maxLength(v, JD_MAX_LENGTH) # jobDescription
  /\ jobDescription' = maxLength(v, JD_MAX_LENGTH)
  /\ hasAnalyzed' = FALSE
  /\ UNCHANGED <<isAnalyzing, formFields, skillInput, error, analysisCall, company,
                 isLoading, submission, userEdited, lastMerged, extractor, others>>

ChangeTitle(v) ==
  /\ UserEvent /\ ~inputsDisabled
  /\ maxLength(v, TITLE_MAX_LENGTH) # title
  /\ title' = maxLength(v, TITLE_MAX_LENGTH) /\ titleSuggested' = FALSE
  /\ Edited("title")
  /\ UNCHANGED <<jobDescription, isAnalyzing, hasAnalyzed, skills, skillsSuggested,
                 locationLabel, locationSuggested, intake, intakeSuggested, stipend,
                 stipendSuggested, perks, perksSuggested, skillInput, error,
                 analysisCall, company, isLoading, submission, extractor, others>>

ChangeLocation(v) ==
  /\ UserEvent /\ ~inputsDisabled
  /\ maxLength(v, LOCATION_MAX_LENGTH) # locationLabel
  /\ locationLabel' = maxLength(v, LOCATION_MAX_LENGTH) /\ locationSuggested' = FALSE
  /\ Edited("location")
  /\ UNCHANGED <<jobDescription, isAnalyzing, hasAnalyzed, title, titleSuggested,
                 skills, skillsSuggested, intake, intakeSuggested, stipend,
                 stipendSuggested, perks, perksSuggested, skillInput, error,
                 analysisCall, company, isLoading, submission, extractor, others>>

ChangeIntake(v) ==
  /\ UserEvent /\ ~inputsDisabled
  /\ v # intake
  /\ intake' = v /\ intakeSuggested' = FALSE
  /\ Edited("intake")
  /\ UNCHANGED <<jobDescription, isAnalyzing, hasAnalyzed, title, titleSuggested,
                 skills, skillsSuggested, locationLabel, locationSuggested, stipend,
                 stipendSuggested, perks, perksSuggested, skillInput, error,
                 analysisCall, company, isLoading, submission, extractor, others>>

ChangeStipend(v) ==
  /\ UserEvent /\ ~inputsDisabled
  /\ v # stipend
  /\ stipend' = v /\ stipendSuggested' = FALSE
  /\ Edited("stipend")
  /\ UNCHANGED <<jobDescription, isAnalyzing, hasAnalyzed, title, titleSuggested,
                 skills, skillsSuggested, locationLabel, locationSuggested, intake,
                 intakeSuggested, perks, perksSuggested, skillInput, error,
                 analysisCall, company, isLoading, submission, extractor, others>>

ChangePerks(v) ==
  /\ UserEvent /\ ~inputsDisabled
  /\ maxLength(v, PERKS_MAX_LENGTH) # perks
  /\ perks' = maxLength(v, PERKS_MAX_LENGTH) /\ perksSuggested' = FALSE
  /\ Edited("perks")
  /\ UNCHANGED <<jobDescription, isAnalyzing, hasAnalyzed, title, titleSuggested,
                 skills, skillsSuggested, locationLabel, locationSuggested, intake,
                 intakeSuggested, stipend, stipendSuggested, skillInput, error,
                 analysisCall, company, isLoading, submission, extractor, others>>

ChangeSkillInput(v) ==
  /\ UserEvent /\ ~inputsDisabled
  /\ maxLength(v, SKILL_MAX_LENGTH) # skillInput
  /\ skillInput' = maxLength(v, SKILL_MAX_LENGTH)
  /\ UNCHANGED <<jobDescription, isAnalyzing, hasAnalyzed, formFields, error,
                 analysisCall, company, isLoading, submission, userEdited,
                 lastMerged, extractor, others>>

(***************************************************************************)
(* Skills.                                                                  *)
(***************************************************************************)
\* skills.filter(s => s !== skill)
RECURSIVE without(_, _)
without(arr, x) ==
  IF arr = <<>> THEN <<>>
  ELSE IF Head(arr) = x THEN without(Tail(arr), x)
  ELSE <<Head(arr)>> \o without(Tail(arr), x)

\* the flag after handleRemoveSkill
flagAfterRemove(list, flag) == IF Len(list) <= 1 THEN FALSE ELSE flag

\* the list after handleAddSkill added `trimmed`
listAfterAdd(list, trimmed) == Append(list, trimmed)

\* a handleAddSkill without the skills.includes test
handleAddSkillAnyway ==
  LET trimmed == trim(skillInput)
  IN  IF trimmed # <<>>
      THEN /\ skills' = listAfterAdd(skills, trimmed)
           /\ skillInput' = <<>>
           /\ skillsSuggested' = FALSE
           /\ Edited("skills")
      ELSE UNCHANGED <<skills, skillInput, skillsSuggested, userEdited, lastMerged>>

handleAddSkill ==
  LET trimmed == trim(skillInput)
  IN  IF trimmed # <<>> /\ ~arrayIncludes(skills, trimmed)
      THEN /\ skills' = listAfterAdd(skills, trimmed)
           /\ skillInput' = <<>>
           /\ skillsSuggested' = FALSE
           /\ Edited("skills")
      ELSE UNCHANGED <<skills, skillInput, skillsSuggested, userEdited, lastMerged>>

\* Enter in the skill input (handleSkillKeyDown) or a click on the + button
AddSkill ==
  /\ UserEvent /\ ~inputsDisabled
  /\ handleAddSkill
  /\ UNCHANGED <<jobDescription, isAnalyzing, hasAnalyzed, title, titleSuggested,
                 locationLabel, locationSuggested, intake, intakeSuggested, stipend,
                 stipendSuggested, perks, perksSuggested, error, analysisCall,
                 company, isLoading, submission, extractor, others>>

\* a click on the X of a skill badge; the button carries no disabled attribute
handleRemoveSkill(skill) ==
  /\ skills' = without(skills, skill)
  /\ skillsSuggested' = flagAfterRemove(skills, skillsSuggested)
  /\ Edited("skills")

RemoveSkill(skill) ==
  /\ UserEvent
  /\ arrayIncludes(skills, skill)
  /\ handleRemoveSkill(skill)
  /\ UNCHANGED <<jobDescription, isAnalyzing, hasAnalyzed, title, titleSuggested,
                 locationLabel, locationSuggested, intake, intakeSuggested, stipend,
                 stipendSuggested, perks, perksSuggested, skillInput, error,
                 analysisCall, company, isLoading, submission, extractor, others>>

(***************************************************************************)
(* handleAnalyzeJD.                                                         *)
(***************************************************************************)
\* if (result.x) { setX(result.x); setXSuggested(true); } for each field
mergedTitle(current, result) ==
  IF result.title # <<>> THEN result.title ELSE current
\* a merge that appends the extracted skills to the list instead of replacing it
mergedSkillsAppended(current, result) ==
  IF Len(result.skills) > 0 THEN current \o result.skills ELSE current
mergedSkills(current, result) ==
  IF Len(result.skills) > 0 THEN result.skills ELSE current
\* a merge that writes the extracted location even when it is empty
mergedLocationAlways(current, result) == result.location
mergedLocation(current, result) ==
  IF result.location # <<>> THEN result.location ELSE current
mergedIntake(current, result) ==
  IF result.intake # 0 THEN numberToString(result.intake) ELSE current
\* an undefined stipend and a stipend of 0 are both falsy
stipendPresent(result) == IsDefined(result.stipend) /\ ValueOf(result.stipend) # 0
mergedStipend(current, result) ==
  IF stipendPresent(result) THEN numberToString(ValueOf(result.stipend)) ELSE current
perksPresent(result) == IsDefined(result.perks) /\ ValueOf(result.perks) # <<>>
mergedPerks(current, result) ==
  IF perksPresent(result) THEN ValueOf(result.perks) ELSE current
mergedFlag(flag, present) == IF present THEN TRUE ELSE flag

\* a handleAnalyzeJD without the length check of lines 216-219
handleAnalyzeJDUnguarded ==
  /\ error' = NO_ERROR
  /\ isAnalyzing' = TRUE
  /\ analysisCall' = Defined(jobDescription)
  /\ UNCHANGED <<jobDescription, hasAnalyzed, formFields, skillInput, company,
                 isLoading, submission, userEdited, lastMerged, extractor, others>>

\* the handler, up to the await
handleAnalyzeJD ==
  /\ IF Len(jobDescription) < MIN_JD_LENGTH
     THEN /\ error' = ERR_ANALYZE_SHORT
          /\ UNCHANGED <<isAnalyzing, analysisCall>>
     ELSE /\ error' = NO_ERROR
          /\ isAnalyzing' = TRUE
          /\ analysisCall' = Defined(jobDescription)
  /\ UNCHANGED <<jobDescription, hasAnalyzed, formFields, skillInput, company,
                 isLoading, submission, userEdited, lastMerged, extractor, others>>

\* a click on the Analyze JD button
ClickAnalyze ==
  /\ UserEvent /\ ~analyzeButtonDisabled
  /\ handleAnalyzeJD

\* the promise resolves and the handler runs to its end: the merge, then the
\* finally block
AnalysisResolved ==
  /\ isAnalyzing /\ IsDefined(analysisCall)
  /\ ~analysisRejected(ValueOf(analysisCall))
  /\ LET result == analysisResult(ValueOf(analysisCall))
     IN  /\ title' = mergedTitle(title, result)
         /\ titleSuggested' = mergedFlag(titleSuggested, result.title # <<>>)
         /\ skills' = mergedSkills(skills, result)
         /\ skillsSuggested' = mergedFlag(skillsSuggested, Len(result.skills) > 0)
         /\ locationLabel' = mergedLocation(locationLabel, result)
         /\ locationSuggested' = mergedFlag(locationSuggested, result.location # <<>>)
         /\ intake' = mergedIntake(intake, result)
         /\ intakeSuggested' = mergedFlag(intakeSuggested, result.intake # 0)
         /\ stipend' = mergedStipend(stipend, result)
         /\ stipendSuggested' = mergedFlag(stipendSuggested, stipendPresent(result))
         /\ perks' = mergedPerks(perks, result)
         /\ perksSuggested' = mergedFlag(perksSuggested, perksPresent(result))
         /\ lastMerged' = [result |-> Defined(result),
                           times |-> IF lastMerged.result = Defined(result)
                                     THEN lastMerged.times + 1 ELSE 1]
  /\ hasAnalyzed' = TRUE
  /\ isAnalyzing' = FALSE
  /\ analysisCall' = Undefined
  /\ UNCHANGED <<jobDescription, skillInput, error, company, isLoading, submission,
                 userEdited, userActions, extractor, others>>

\* the promise rejects: the catch block, then the finally block
AnalysisRejected ==
  /\ isAnalyzing /\ IsDefined(analysisCall)
  /\ analysisRejected(ValueOf(analysisCall))
  /\ error' = ERR_ANALYZE_FAILED
  /\ isAnalyzing' = FALSE
  /\ analysisCall' = Undefined
  /\ UNCHANGED <<jobDescription, hasAnalyzed, formFields, skillInput, company,
                 isLoading, submission, userEdited, lastMerged, userActions, extractor, others>>

\* the timer of analyzeJobDescription fires and the handler goes on past its
\* await, into the try block or into the catch block
AnalysisSettled ==
  /\ isAnalyzing /\ IsDefined(analysisCall)
  /\ IF analysisRejected(ValueOf(analysisCall)) THEN AnalysisRejected
     ELSE AnalysisResolved

(***************************************************************************)
(* handleSubmit, with createJob and processJob of CompanyContext.           *)
(***************************************************************************)
\* a validation that accepts every intake that is a number
validationErrorAnyNumber ==
  LET intakeNum == parseInt(intake)
  IN  IF trim(jobDescription) = <<>> \/ Len(jobDescription) < MIN_JD_LENGTH
        THEN ERR_JD_REQUIRED
      ELSE IF trim(title) = <<>> THEN ERR_TITLE
      ELSE IF Len(skills) = 0 THEN ERR_SKILLS
      ELSE IF trim(locationLabel) = <<>> THEN ERR_LOCATION
      ELSE IF intakeNum.isNaN THEN ERR_INTAKE
      ELSE NO_ERROR

\* the error of the first check that fails, NO_ERROR when none does
validationError ==
  LET intakeNum == parseInt(intake)
  IN  IF trim(jobDescription) = <<>> \/ Len(jobDescription) < MIN_JD_LENGTH
        THEN ERR_JD_REQUIRED
      ELSE IF trim(title) = <<>> THEN ERR_TITLE
      ELSE IF Len(skills) = 0 THEN ERR_SKILLS
      ELSE IF trim(locationLabel) = <<>> THEN ERR_LOCATION
      ELSE IF intakeNum.isNaN \/ intakeNum.value < 1 THEN ERR_INTAKE
      ELSE NO_ERROR

\* the CreateJobInput (location.lat and location.lng are random numbers that
\* do not depend on the form and are left out)
jobData ==
  [title |-> trim(title),
   requiredSkills |-> skills,
   locationLabel |-> trim(locationLabel),
   intake |-> parseInt(intake),
   stipend |-> IF stipend # <<>> THEN Defined(parseInt(stipend)) ELSE Undefined,
   perks |-> IF trim(perks) # <<>> THEN Defined(trim(perks)) ELSE Undefined,
   originalJD |-> trim(jobDescription)]

\* the handler, up to its first await; createJob throws 'No company session'
\* before it sets isLoading when there is no company
handleSubmit ==
  /\ IF validationError # NO_ERROR
     THEN /\ error' = validationError
          /\ UNCHANGED <<isLoading, submission>>
     ELSE /\ createJobCalls' = Append(createJobCalls, jobData)
          /\ IF company
             THEN /\ error' = NO_ERROR
                  /\ isLoading' = TRUE
                  /\ submitPC' = "createJob"
             ELSE /\ error' = ERR_CREATE_FAILED
                  /\ UNCHANGED <<isLoading, submitPC>>
          /\ UNCHANGED <<processJobCalls, navigated>>
  /\ UNCHANGED <<jobDescription, isAnalyzing, hasAnalyzed, formFields, skillInput,
                 analysisCall, company, userEdited, lastMerged, extractor, others>>

\* the form is submitted through its submit button
Submit ==
  /\ UserEvent /\ ~submitButtonDisabled /\ formValid /\ submitPC = "idle"
  /\ handleSubmit

\* companyJobsApi.createJob resolves; refreshJobs swallows its own failure;
\* createJob returns the job and handleSubmit calls processJob(job.id), which
\* sets isLoading again before anything is rendered.  The job's id is the
\* number of the createJob call.
CreateJobResolved ==
  /\ submitPC = "createJob"
  /\ processJobCalls' = Append(processJobCalls, Len(createJobCalls))
  /\ submitPC' = "processJob"
  /\ isLoading' = TRUE
  /\ UNCHANGED <<jobDescription, isAnalyzing, hasAnalyzed, formFields, skillInput,
                 error, analysisCall, company, createJobCalls, navigated,
                 userEdited, lastMerged, userActions, extractor, others>>

\* a handleSubmit that goes on to processJob after createJob has failed
CreateJobRejectedThenProcess ==
  /\ submitPC = "createJob"
  /\ processJobCalls' = Append(processJobCalls, Len(createJobCalls))
  /\ submitPC' = "processJob"
  /\ isLoading' = TRUE
  /\ error' = ERR_CREATE_FAILED
  /\ UNCHANGED <<jobDescription, isAnalyzing, hasAnalyzed, formFields, skillInput,
                 analysisCall, company, createJobCalls, navigated,
                 userEdited, lastMerged, userActions, extractor, others>>

\* companyJobsApi.createJob rejects: createJob rethrows, handleSubmit catches
CreateJobRejected ==
  /\ submitPC = "createJob"
  /\ isLoading' = FALSE
  /\ error' = ERR_CREATE_FAILED
  /\ submitPC' = "idle"
  /\ UNCHANGED <<jobDescription, isAnalyzing, hasAnalyzed, formFields, skillInput,
                 analysisCall, company, createJobCalls, processJobCalls, navigated,
                 userEdited, lastMerged, userActions, extractor, others>>

ProcessJobResolved ==
  /\ submitPC = "processJob"
  /\ isLoading' = FALSE
  /\ navigated' = TRUE
  /\ submitPC' = "idle"
  /\ UNCHANGED <<jobDescription, isAnalyzing, hasAnalyzed, formFields, skillInput,
                 error, analysisCall, company, createJobCalls, processJobCalls,
                 userEdited, lastMerged, userActions, extractor, others>>

ProcessJobRejected ==
  /\ submitPC = "processJob"
  /\ isLoading' = FALSE
  /\ error' = ERR_CREATE_FAILED
  /\ submitPC' = "idle"
  /\ UNCHANGED <<jobDescription, isAnalyzing, hasAnalyzed, formFields, skillInput,
                 analysisCall, company, createJobCalls, processJobCalls, navigated,
                 userEdited, lastMerged, userActions, extractor, others>>

\* refreshCompany (on mount and on window focus) sets or clears the company
RefreshCompany ==
  /\ company' = ~company
  /\ UNCHANGED <<jobDescription, isAnalyzing, hasAnalyzed, formFields, skillInput,
                 error, analysisCall, isLoading, submission, userEdited, lastMerged,
                 userActions, extractor, others>>

Next ==
  \/ \E v \in JDInputs : ChangeJD(v)
  \/ \E v \in TitleInputs : ChangeTitle(v)
  \/ \E v \in LocationInputs : ChangeLocation(v)
  \/ \E v \in IntakeInputs : ChangeIntake(v)
  \/ \E v \in StipendInputs : ChangeStipend(v)
  \/ \E v \in PerksInputs : ChangePerks(v)
  \/ \E v \in SkillInputs : ChangeSkillInput(v)
  \/ AddSkill
  \/ \E k \in 1..Len(skills) : RemoveSkill(skills[k])
  \/ ClickAnalyze
  \/ AnalysisSettled
  \/ Submit
  \/ CreateJobResolved
  \/ CreateJobRejected
  \/ ProcessJobResolved
  \/ ProcessJobRejected
  \/ RefreshCompany

Spec == Init /\ [][Next]_vars

\* The timer of analyzeJobDescription (800 to 1200 ms) always fires.
SpecLive == Spec /\ WF_vars(AnalysisSettled)

(***************************************************************************)
(* analyzeJobDescription on its own: one document, one call.                *)
(***************************************************************************)
\* amounts as they are written in a document
PlainAmounts == {<<"0">>, <<"1","5">>, <<"1","5","0">>, <<"1","5","0","0","0">>, <<"1","5",",","0","0","0">>, <<"1","5","0",",","0","0","0">>}
AmountSuffixes == {<<>>, <<"k">>, <<"K">>}
StipendLeads == {<<"s","t","i","p","e","n","d",":"," ">>, <<"S","a","l","a","r","y"," ","R","s","."," ">>, <<"c","o","m","p","e","n","s","a","t","i","o","n",":"," ","I","N","R"," ">>, <<"p","a","y"," ">> \o <<RupeeSign>>}
\* what follows the amount; none holds a digit
StipendTails == {<<>>, <<" ","p","e","r"," ","m","o","n","t","h">>, <<" ","w","e","e","k","l","y">>}

\* a stipend phrase whose amount carries no k
PlainStipendDocs ==
  {lead \o amount \o tail :
     lead \in StipendLeads, amount \in PlainAmounts, tail \in StipendTails}

StipendDocs ==
  {lead \o amount \o suffix \o tail :
     lead \in StipendLeads, amount \in PlainAmounts,
     suffix \in AmountSuffixes, tail \in StipendTails}
  \cup {<<"I","N","R"," ","1","2","K","/","m","o","n","t","h">>, <<"r","s"," ","1","5","0","0","0","k"," ","p","e","r"," ","m","o","n","t","h">>, <<"R","s","."," ","5",",","0","0","0"," ","p",".","m",".">>,
        <<RupeeSign>> \o <<" ","8","0","0","0"," ","p","m"," ","f","o","r"," ","2"," ","i","n","t","e","r","n","s">>, <<"I","N","R"," ","9","0","0"," ","w","e","e","k","l","y">>}

IntakeNumbers == {<<"0">>, <<"1">>, <<"7">>, <<"1","0","0">>, <<"1","0","1">>, <<"1","5","0">>, <<"0","0","7">>}

IntakeDocs ==
  UNION {{n \o <<" ","p","o","s","i","t","i","o","n","s"," ","a","v","a","i","l","a","b","l","e">>,
          <<"H","i","r","i","n","g"," ">> \o n \o <<" ","e","n","g","i","n","e","e","r","s">>,
          <<"O","p","e","n","i","n","g","s",":"," ">> \o n,
          <<"W","e"," ","n","e","e","d"," ">> \o n \o <<" ","p","e","o","p","l","e"," ","f","o","r"," ","3"," ","o","p","e","n","i","n","g","s">>} : n \in IntakeNumbers}

\* documents with neither an intake phrase nor a stipend phrase
OtherDocs == {<<>>, <<"G","r","e","a","t"," ","t","e","a","m",","," ","g","o","o","d"," ","p","a","y">>, <<"U","n","p","a","i","d",","," ","w","o","r","k"," ","f","r","o","m"," ","h","o","m","e",","," ","w","e","e","k","l","y"," ","s","y","n","c">>}

\* documents that name a place of work
LocationDocs ==
  {<<"R","e","m","o","t","e">>, <<"r","e","m","o","t","e">>, <<"T","h","i","s"," ","i","s"," ","a"," ","R","E","M","O","T","E"," ","r","o","l","e">>, <<"f","u","l","l","y"," ","r","e","m","o","t","e"," ","t","e","a","m">>,
   <<"W","F","H">>, <<"w","f","h"," ","a","l","l","o","w","e","d">>, <<"W","o","r","k"," ","f","r","o","m"," ","h","o","m","e","!">>, <<"w","o","r","k"," ","f","r","o","m"," ","h","o","m","e">>,
   <<"L","o","c","a","t","i","o","n",":"," ","R","e","m","o","t","e",".">>, <<"l","o","c","a","t","i","o","n",":"," ","r","e","m","o","t","e">>, <<"O","f","f","i","c","e",":"," ","W","F","H",","," ","P","u","n","e">>,
   <<"L","o","c","a","t","i","o","n",":"," ","P","u","n","e",","," ","I","n","d","i","a">>, <<"b","a","s","e","d"," ","i","n"," ","n","e","w"," ","d","e","l","h","i">>, <<"J","o","i","n"," ","u","s"," ","i","n"," ","M","u","m","b","a","i",","," ","M","a","h","a","r","a","s","h","t","r","a">>,
   <<"L","o","c","a","t","i","o","n",":"," ","5","t","h"," ","f","l","o","o","r">>}

\* documents that name a role; "\n" is a line break
TitleDocs ==
  {<<"R","o","l","e",":"," ","D","a","t","a"," ","A","n","a","l","y","s","t","."," ","W","e"," ","a","r","e"," ","h","i","r","i","n","g"," ","a"," ","B","a","c","k","e","n","d"," ","D","e","v","e","l","o","p","e","r">>,
   <<"M","a","r","k","e","t","i","n","g"," ","I","n","t","e","r","n">> \o <<"\n">> \o <<"W","e"," ","a","r","e"," ","l","o","o","k","i","n","g"," ","f","o","r"," ","a"," ","S","a","l","e","s"," ","E","x","e","c","u","t","i","v","e">>,
   <<"P","r","o","d","u","c","t"," ","D","e","s","i","g","n","e","r">> \o <<"\n">> \o <<"P","o","s","i","t","i","o","n",":"," ","U","X"," ","D","e","s","i","g","n","e","r">>,
   <<"G","r","o","w","t","h"," ","M","a","n","a","g","e","r">> \o <<"\n">> \o <<"R","o","l","e",":"," ","B","r","a","n","d"," ","D","e","s","i","g","n","e","r">> \o <<"\n">> \o <<"W","e"," ","a","r","e"," ","s","e","e","k","i","n","g"," ","a"," ","C","o","n","t","e","n","t"," ","A","n","a","l","y","s","t">>,
   <<"W","e"," ","n","e","e","d"," ","a"," ","s","e","n","i","o","r"," "," "," ","d","a","t","a">> \o <<"\n">> \o <<"a","n","a","l","y","s","t">>,
   <<"F","r","o","n","t","e","n","d"," ","I","n","t","e","r","n">>, <<"O","p","e","n","i","n","g",":"," ","Q","A"," ","E","n","g","i","n","e","e","r">>, <<"S","e","e","k","i","n","g"," ","S","u","p","p","o","r","t"," ","A","s","s","o","c","i","a","t","e">>,
   <<"f","r","o","n","t","e","n","d"," ","w","o","r","k",","," ","n","o","t","h","i","n","g"," ","e","l","s","e"," ","n","a","m","e","d">>, <<"F","u","l","l"," ","s","t","a","c","k"," ","a","n","d"," ","d","e","s","i","g","n"," ","t","a","s","k","s">>}

\* documents that name skills: fifteen vocabulary entries in reverse scan
\* order with one of them repeated, and smaller ones
SkillDocs ==
  {<<"s","c","r","u","m"," ","a","g","i","l","e"," ","e","x","c","e","l"," ","f","i","g","m","a"," ","c","s","s"," ","h","t","m","l"," ","g","i","t"," ","d","o","c","k","e","r"," ","a","w","s"," ","s","q","l"," ","j","a","v","a"," ","p","y","t","h","o","n"," ","v","u","e"," ","a","n","g","u","l","a","r"," ","r","e","a","c","t"," ","r","e","a","c","t">>,
   <<"R","e","a","c","t",","," ","r","e","a","c","t"," ","a","n","d"," ","R","E","A","C","T",";"," ","n","o","d","e",".","j","s"," ","o","r"," ","n","o","d","e","j","s">>,
   <<"P","o","w","e","r"," ","B","I"," ","a","n","d"," ","m","a","c","h","i","n","e"," ","l","e","a","r","n","i","n","g",","," ","C","+","+",","," ","C","#",","," ",".","N","E","T">>,
   <<"j","a","v","a","s","c","r","i","p","t">>, <<"R","e","a","c","t"," ","N","a","t","i","v","e"," ","o","n"," ","i","O","S"," ","a","n","d"," ","A","n","d","r","o","i","d">>}

\* documents that no title pattern matches
FallbackDocs ==
  {<<"S","o","f","t","w","a","r","e",","," ","3"," ","i","n","t","e","r","n","s",";"," ","f","r","o","n","t","e","n","d"," ","t","o","o">>, <<"b","a","c","k","e","n","d"," ","+"," ","f","r","o","n","t","e","n","d">>,
   <<"f","u","l","l","s","t","a","c","k",","," ","b","a","c","k","e","n","d">>, <<"F","u","l","l"," ","S","t","a","c","k"," ","&"," ","U","I"," ","d","e","s","i","g","n">>, <<"d","a","t","a"," ","s","c","i","e","n","c","e",","," ","d","a","t","a"," ","a","n","a","l","y","s","t">>,
   <<"d","a","t","a"," ","s","c","i","e","n","c","e"," ","+"," ","m","a","r","k","e","t","i","n","g">>, <<"m","a","r","k","e","t","i","n","g","/","d","e","s","i","g","n">>, <<"U","I"," ","d","e","s","i","g","n">>, <<"1","2","3","4","5">>}

\* documents that several patterns of one list match
PriorityDocs ==
  {<<"O","f","f","i","c","e",":"," "," ">> \o <<"\n">> \o <<"5","t","h"," ","f","l","o","o","r",","," ","P","u","n","e">>,
   <<"M","u","m","b","a","i"," ","o","f","f","i","c","e",","," ","l","o","c","a","t","i","o","n",":"," ","P","u","n","e",".">>,
   <<"I","N","R"," ","5","0","0","0"," ","p","e","r"," ","m","o","n","t","h",","," ","s","a","l","a","r","y"," ","7","0","0","0">>, <<"I","N","R"," ","9","0","0"," ","p","m"," ","a","n","d"," ","p","a","y"," ","1","2","k">>,
   <<"0"," ","p","o","s","i","t","i","o","n","s",","," ","h","i","r","i","n","g"," ","5">>, <<"H","i","r","i","n","g"," ","5",","," ","o","p","e","n","i","n","g","s",":"," ","3",","," ","2"," ","i","n","t","e","r","n","s">>}

\* documents that name perks
PerkDocs ==
  {<<"L","O","R"," ","a","n","d"," ","l","e","t","t","e","r"," ","o","f"," ","r","e","c","o","m","m","e","n","d","a","t","i","o","n",","," ","W","F","H"," ","/"," ","w","o","r","k"," ","f","r","o","m"," ","h","o","m","e">>,
   <<"p","p","o",","," ","p","r","e","-","p","l","a","c","e","m","e","n","t"," ","o","f","f","e","r",","," ","b","o","n","u","s">>,
   <<"S","n","a","c","k","s",","," ","m","e","a","l","s",","," ","t","e","a","m"," ","o","u","t","i","n","g","s",","," ","h","e","a","l","t","h"," ","i","n","s","u","r","a","n","c","e">>,
   <<"m","e","n","t","o","r","s","h","i","p"," ","t","r","a","i","n","i","n","g"," ","c","e","r","t","i","f","i","c","a","t","e"," ","c","e","r","t","i","f","i","c","a","t","e">>, <<"F","l","e","x","i","b","l","e">>}

ExtractDocs ==
  StipendDocs \cup IntakeDocs \cup OtherDocs \cup LocationDocs \cup TitleDocs
  \cup SkillDocs \cup FallbackDocs \cup PriorityDocs \cup PerkDocs \cup {JD_FULL}

InitExtract ==
  /\ jobDescription = <<>> /\ isAnalyzing = FALSE /\ hasAnalyzed = FALSE
  /\ title = <<>> /\ titleSuggested = FALSE
  /\ skillInput = <<>> /\ skills = <<>> /\ skillsSuggested = FALSE
  /\ locationLabel = <<>> /\ locationSuggested = FALSE
  /\ intake = <<>> /\ intakeSuggested = FALSE
  /\ stipend = <<>> /\ stipendSuggested = FALSE
  /\ perks = <<>> /\ perksSuggested = FALSE
  /\ error = NO_ERROR
  /\ analysisCall = Undefined
  /\ company = FALSE /\ isLoading = FALSE
  /\ submitPC = "idle" /\ createJobCalls = <<>> /\ processJobCalls = <<>>
  /\ navigated = FALSE
  /\ userEdited = {} /\ lastMerged = [result |-> Undefined, times |-> 0]
  /\ userActions = 0
  /\ analysisMemo = <<>>
  /\ extractInput \in {Defined(d) : d \in ExtractDocs}
  /\ extractOutput = Undefined
  /\ extractDelays = <<>>
  /\ sessionAtRest /\ providerAtRest

\* the calls made on one document
MaxExtractRuns == 2

\* 800 + Math.random() * 400, in milliseconds: the ends of the range
Delays == {800, 1199}

\* a result into which the delay has leaked
resolvedValueWithDelay(result, delay) == [result EXCEPT !.intake = delay]

\* the value the promise resolves with after `delay` ms: the returned object
resolvedValue(result, delay) == result

\* the timer of a call fires after `delay` ms and the promise resolves with
\* the object the body computed
Resolved(result, delay) ==
  /\ IsDefined(extractInput) /\ Len(extractDelays) < MaxExtractRuns
  /\ extractDelays' = Append(extractDelays, delay)
  /\ extractOutput' = Defined(resolvedValue(result, delay))
  /\ UNCHANGED <<jobDescription, isAnalyzing, hasAnalyzed, formFields, skillInput,
                 error, analysisCall, company, isLoading, submission, userEdited,
                 lastMerged, userActions, extractInput, analysisMemo, others>>

\* one call analyzeJobDescription(jd)
Extract(delay) == Resolved(analyzeJobDescription(ValueOf(extractInput)), delay)

\* one call on each document
NextExtract == \E delay \in Delays : extractDelays = <<>> /\ Extract(delay)

SpecExtract == InitExtract /\ [][NextExtract]_vars

\* call after call on each document, with either delay
NextExtractAgain ==
  /\ IsDefined(extractInput) /\ Len(extractDelays) < MaxExtractRuns
  /\ \E result \in {analyzeJobDescription(ValueOf(extractInput))}, delay \in Delays :
       Resolved(result, delay)

SpecExtractAgain == InitExtract /\ [][NextExtractAgain]_vars

(***************************************************************************)
(* Properties of the form (Spec).                                           *)
(***************************************************************************)
\* C1: once the user has edited a field directly (clearing it included), no
\* later merge of an extraction result by handleAnalyzeJD changes the value
\* of that field.
C1_ConfirmationSticks ==
  [][AnalysisResolved =>
       /\ ("title" \in userEdited => title' = title)
       /\ ("skills" \in userEdited => skills' = skills)
       /\ ("location" \in userEdited => locationLabel' = locationLabel)
       /\ ("intake" \in userEdited => intake' = intake)
       /\ ("stipend" \in userEdited => stipend' = stipend)
       /\ ("perks" \in userEdited => perks' = perks)]_vars

\* C2: every user event that changes the value of a field (typing in it,
\* adding a skill, removing a skill from a list of any size) leaves the
\* field's AI-suggested flag false.
C2_EditClearsSuggestion ==
  [][userActions' # userActions =>
       /\ (title' # title => ~titleSuggested')
       /\ (skills' # skills => ~skillsSuggested')
       /\ (locationLabel' # locationLabel => ~locationSuggested')
       /\ (intake' # intake => ~intakeSuggested')
       /\ (stipend' # stipend => ~stipendSuggested')
       /\ (perks' # perks => ~perksSuggested')]_vars

\* C3: with no field edited by the user, merging the result that was merged
\* last once more leaves every field value and every AI-suggested flag as
\* the first merge left them.
C3_MergeIdempotent ==
  [][(/\ AnalysisResolved
      /\ userEdited = {}
      /\ lastMerged.times >= 1
      /\ lastMerged'.times = lastMerged.times + 1)
     => formFields' = formFields]_vars

\* the same result has been merged twice in a row into a form the user never
\* edited, and it filled the skills
C3_MergedTwice ==
  /\ lastMerged.times >= 2
  /\ userEdited = {}
  /\ Len(skills) > 0 /\ skillsSuggested

\* C4: when the form violates several of the five submission rules, the
\* error handleSubmit sets is not the message of one single rule: it names
\* every violated rule.
C4_AllViolationsReported ==
  LET intakeNum == parseInt(intake)
      violated ==
        {r \in 1..5 :
           \/ r = 1 /\ (trim(jobDescription) = <<>> \/ Len(jobDescription) < 100)
           \/ r = 2 /\ trim(title) = <<>>
           \/ r = 3 /\ Len(skills) = 0
           \/ r = 4 /\ trim(locationLabel) = <<>>
           \/ r = 5 /\ (intakeNum.isNaN \/ intakeNum.value < 1)}
  IN  Cardinality(violated) >= 2 =>
        ~ENABLED (/\ userActions' = userActions
                  /\ handleSubmit
                  /\ error' \in {ERR_JD_REQUIRED, ERR_TITLE, ERR_SKILLS,
                                 ERR_LOCATION, ERR_INTAKE})

\* C5: every record createJob was called with has a non-empty trimmed title,
\* at least one skill, a non-empty trimmed location label and an intake that
\* is an integer >= 1; and when the form violates one of these rules,
\* handleSubmit sets an error and calls neither createJob nor processJob nor
\* navigate.
C5_NoInvalidRecordSubmitted ==
  LET intakeNum == parseInt(intake)
      ruleViolated ==
        \/ trim(title) = <<>>
        \/ Len(skills) = 0
        \/ trim(locationLabel) = <<>>
        \/ intakeNum.isNaN \/ intakeNum.value < 1
  IN  /\ \A k \in 1..Len(createJobCalls) :
           LET r == createJobCalls[k]
           IN  /\ trim(r.title) # <<>>
               /\ Len(r.requiredSkills) >= 1
               /\ trim(r.locationLabel) # <<>>
               /\ ~r.intake.isNaN /\ r.intake.value >= 1
      /\ ruleViolated =>
           ~ENABLED (/\ userActions' = userActions
                     /\ handleSubmit
                     /\ ~(/\ error' # NO_ERROR
                          /\ UNCHANGED <<createJobCalls, processJobCalls, navigated>>))

\* a record was handed to createJob, and the form now holds an intake of 0,
\* which handleSubmit rejects
C5_SubmittedThenInvalid ==
  /\ Len(createJobCalls) > 0
  /\ intake = <<"0">>
  /\ validationError = ERR_INTAKE

\* C6: no job description of fewer than 100 characters after trimming
\* reaches createJob.
C6_TrimmedLengthEnforced ==
  \A k \in 1..Len(createJobCalls) : Len(createJobCalls[k].originalJD) >= 100

\* C7: analyzeJobDescription is only ever called with a text of 100 to 5000
\* characters, and isAnalyzing is set only for such a call; on a job
\* description of fewer than 100 characters handleAnalyzeJD sets its error
\* and changes neither isAnalyzing, nor the call, nor a field value or flag.
C7_ExtractorInputBounded ==
  /\ isAnalyzing => IsDefined(analysisCall)
  /\ IsDefined(analysisCall) =>
       /\ Len(ValueOf(analysisCall)) >= 100
       /\ Len(ValueOf(analysisCall)) <= 5000
  /\ Len(jobDescription) < 100 =>
       ~ENABLED (/\ userActions' = userActions
                 /\ handleAnalyzeJD
                 /\ ~(/\ error' = ERR_ANALYZE_SHORT
                      /\ UNCHANGED <<isAnalyzing, analysisCall, formFields>>))

\* an analysis has been merged, and the job description now holds 99
\* characters
C7_ShortAfterAnalysis ==
  /\ lastMerged.times >= 1
  /\ Len(jobDescription) = 99
  /\ ~isAnalyzing /\ analysisCall = Undefined

(***************************************************************************)
(* Properties of analyzeJobDescription (SpecExtract).                       *)
(***************************************************************************)
\* C8: the extracted intake is an integer in [1, 100]: 1 when no intake
\* pattern matches, 100 when the first pattern that matches captures a
\* number above 100, 1 when it captures 0, and the captured number otherwise.
C8_IntakeClamped ==
  IsDefined(extractOutput) =>
    LET jd == ValueOf(extractInput)
        out == ValueOf(extractOutput).intake
        f == firstMatch(jd, intakePatterns, 1)
        captured == digitsValue(f.m.m1)
    IN  /\ out \in 1..100
        /\ f.pattern = 0 => out = 1
        /\ f.pattern # 0 =>
             out = IF captured > 100 THEN 100
                   ELSE IF captured = 0 THEN 1
                   ELSE captured

\* "150 positions available" was analysed and gave an intake of 100
C8_Clamped150 ==
  /\ extractInput = Defined(<<"1","5","0"," ","p","o","s","i","t","i","o","n","s"," ","a","v","a","i","l","a","b","l","e">>)
  /\ IsDefined(extractOutput)
  /\ ValueOf(extractOutput).intake = 100

\* C9: when a stipend pattern matches with parsed amount n, the stipend is
\* n * 1000 if a k or K follows the amount inside the matched span and n if
\* none does; when no stipend pattern matches, the stipend is unset.
C9_StipendUnitExpansion ==
  IsDefined(extractOutput) =>
    LET jd == ValueOf(extractInput)
        out == ValueOf(extractOutput).stipend
        f == firstMatch(jd, stipendPatterns, 1)
        n == parseInt(stripCommas(f.m.m1)).value
        spanEnd == f.m.index + Len(f.m.m0)
        kFollows == f.m.g1End < spanEnd /\ jd[f.m.g1End] \in {"k", "K"}
    IN  IF f.pattern = 0 THEN out = Undefined
        ELSE out = Defined(IF kFollows THEN n * 1000 ELSE n)

\* "stipend: 15k per month" was analysed and gave a stipend of 15000
C9_Expanded15k ==
  /\ extractInput = Defined(<<"s","t","i","p","e","n","d",":"," ","1","5","k"," ","p","e","r"," ","m","o","n","t","h">>)
  /\ IsDefined(extractOutput)
  /\ ValueOf(extractOutput).stipend = Defined(15000)

\* C10: for a stipend phrase whose amount is written without a k, as plain
\* digits or with thousands separators, the stipend is the whole number
\* written.
C10_PlainAmountParsedInFull ==
  (IsDefined(extractOutput) /\ ValueOf(extractInput) \in PlainStipendDocs) =>
    LET jd == ValueOf(extractInput)
        written == digitsValue(SelectSeq(jd, LAMBDA c : c \in DigitSet))
    IN  ValueOf(extractOutput).stipend = Defined(written)

\* the words of a remote-style text, lower-cased
RemoteWords == <<<<"r","e","m","o","t","e">>,
     <<"w","o","r","k"," ","f","r","o","m"," ","h","o","m","e">>,
     <<"w","f","h">>>>

\* C11: when the winning location match is remote-style (the third location
\* pattern won, or the matched text holds remote, work from home or wfh in
\* any letter case), the extracted location is exactly "Remote".
C11_RemoteNormalised ==
  IsDefined(extractOutput) =>
    LET jd == ValueOf(extractInput)
        f == firstMatch(jd, locationPatterns, 1)
        remoteStyle ==
          /\ f.pattern # 0
          /\ \/ f.pattern = 3
             \/ \E k \in 1..Len(RemoteWords) :
                  includes(toLowerCase(f.m.m0), RemoteWords[k])
    IN  remoteStyle => ValueOf(extractOutput).location = <<"R","e","m","o","t","e">>

\* C12: for a document that matches two or more of the three title patterns,
\* the extracted title is the one made from the match of the pattern that
\* comes first in titlePatterns, wherever in the text the patterns match; the
\* later patterns and the keyword fallback have no part in it.
C12_TitlePatternPriority ==
  IsDefined(extractOutput) =>
    LET jd == ValueOf(extractInput)
        matching == {k \in 1..Len(titlePatterns) : match(jd, titlePatterns[k]) # NoMatch}
        earliest == CHOOSE k \in matching : \A j \in matching : k <= j
    IN  Cardinality(matching) >= 2 =>
          ValueOf(extractOutput).title = titleFromMatch(match(jd, titlePatterns[earliest]))

\* a document whose second pattern matches further left than its first was
\* analysed, and the title is the one of the first pattern
C12_LaterPatternLeftmost ==
  /\ extractInput = Defined(<<"R","o","l","e",":"," ","D","a","t","a"," ","A","n","a","l","y","s","t","."," ","W","e"," ","a","r","e"," ","h","i","r","i","n","g"," ","a"," ","B","a","c","k","e","n","d"," ","D","e","v","e","l","o","p","e","r">>)
  /\ IsDefined(extractOutput)
  /\ ValueOf(extractOutput).title = <<"B","a","c","k","e","n","d"," ","D","e","v","e","l","o","p","e","r">>

\* C13: the extracted skills are at most 10, hold no duplicate, and are the
\* first 10 (or all, if fewer) of the SKILL_KEYWORDS entries that occur as
\* substrings of the lower-cased document, in the order of SKILL_KEYWORDS,
\* each in its display form, however often an entry occurs in the text.
C13_SkillsCappedDedupedOrdered ==
  IsDefined(extractOutput) =>
    LET lowerJD == toLowerCase(ValueOf(extractInput))
        out == ValueOf(extractOutput).skills
        occurring == SelectSeq(SKILL_KEYWORDS, LAMBDA kw : includes(lowerJD, kw))
        n == IF Len(occurring) < 10 THEN Len(occurring) ELSE 10
    IN  /\ Len(out) <= 10
        /\ \A i, j \in 1..Len(out) : i # j => out[i] # out[j]
        /\ Len(out) = n
        /\ \A i \in 1..n : /\ out[i] = formatSkill(occurring[i])
                           /\ toLowerCase(out[i]) = occurring[i]

\* a document with fifteen vocabulary skills written in reverse scan order,
\* one of them twice, was analysed: the result is the first ten in scan order
C13_FifteenSkillsGiveTen ==
  /\ extractInput = Defined(<<"s","c","r","u","m"," ","a","g","i","l","e"," ","e","x","c","e","l"," ","f","i","g","m","a"," ","c","s","s"," ","h","t","m","l"," ","g","i","t"," ","d","o","c","k","e","r"," ","a","w","s"," ","s","q","l"," ","j","a","v","a"," ","p","y","t","h","o","n"," ","v","u","e"," ","a","n","g","u","l","a","r"," ","r","e","a","c","t"," ","r","e","a","c","t">>)
  /\ IsDefined(extractOutput)
  /\ ValueOf(extractOutput).skills =
       <<<<"R","e","a","c","t">>,
     <<"A","n","g","u","l","a","r">>,
     <<"V","u","e">>,
     <<"P","y","t","h","o","n">>,
     <<"J","a","v","a">>,
     <<"S","Q","L">>,
     <<"A","W","S">>,
     <<"D","o","c","k","e","r">>,
     <<"G","i","t">>,
     <<"H","T","M","L">>>>

(***************************************************************************)
(* Properties of the merge (Spec).                                          *)
(***************************************************************************)
\* C14: when an analysis resolves on a form no field of which the user has
\* edited, every field present in the result (a non-empty title, a non-empty
\* skills list, a non-empty location, the intake, a stipend that is set, perks
\* that are set) holds the result's value afterwards and is marked
\* AI-suggested.
C14_PresentFieldsMerged ==
  [][(AnalysisResolved /\ userEdited = {}) =>
       LET result == analysisResult(ValueOf(analysisCall))
       IN  /\ result.title # <<>> =>
                title' = result.title /\ titleSuggested'
           /\ Len(result.skills) > 0 =>
                skills' = result.skills /\ skillsSuggested'
           /\ result.location # <<>> =>
                locationLabel' = result.location /\ locationSuggested'
           /\ intake' = numberToString(result.intake) /\ intakeSuggested'
           /\ IsDefined(result.stipend) =>
                stipend' = numberToString(ValueOf(result.stipend)) /\ stipendSuggested'
           /\ IsDefined(result.perks) =>
                perks' = ValueOf(result.perks) /\ perksSuggested']_vars

\* C15: a field that is absent from the extraction result (an empty skills
\* list, an empty location, an unset stipend, unset perks) keeps its value
\* and its AI-suggested flag through the merge, whatever they were.
C15_AbsentFieldsUntouched ==
  [][AnalysisResolved =>
       LET result == analysisResult(ValueOf(analysisCall))
       IN  /\ Len(result.skills) = 0 => UNCHANGED <<skills, skillsSuggested>>
           /\ result.location = <<>> => UNCHANGED <<locationLabel, locationSuggested>>
           /\ ~IsDefined(result.stipend) => UNCHANGED <<stipend, stipendSuggested>>
           /\ ~IsDefined(result.perks) => UNCHANGED <<perks, perksSuggested>>]_vars

\* a result with no skills, no location, no stipend and no perks was merged
\* last, and the form still holds the suggested skills, location, stipend
\* and perks of an earlier analysis
C15_EmptyResultOverFilledForm ==
  /\ IsDefined(lastMerged.result)
  /\ LET result == ValueOf(lastMerged.result)
     IN  /\ Len(result.skills) = 0 /\ result.location = <<>>
         /\ ~IsDefined(result.stipend) /\ ~IsDefined(result.perks)
  /\ Len(skills) > 0 /\ skillsSuggested
  /\ locationLabel # <<>> /\ locationSuggested
  /\ stipend # <<>> /\ stipendSuggested
  /\ perks # <<>> /\ perksSuggested

(***************************************************************************)
(* Properties of the analysis as a whole (SpecLive).                        *)
(***************************************************************************)
\* C16: analyzeJobDescription rejects on no text the form can hold, the error
\* 'Failed to analyze job description' is never set, and every analysis that
\* has started ends with isAnalyzing back to false; a result whose location,
\* stipend or perks found no match still carries a title and an intake.
C16_ExtractorNeverFails ==
  /\ [](/\ \A k \in DOMAIN analysisMemo :
             /\ ~analysisMemo[k].rejects
             /\ analysisMemo[k].result.title # <<>>
             /\ analysisMemo[k].result.intake \in 1..100
        /\ error # ERR_ANALYZE_FAILED)
  /\ (isAnalyzing ~> ~isAnalyzing)

\* the analysis of a text with nothing to extract has ended: no skills, no
\* location, no stipend, no perks, the title Intern and the intake 1 merged
C16_BareTextAnalysed ==
  /\ lastMerged = [result |-> Defined(analysisResult(JD_BARE)), times |-> 1]
  /\ jobDescription = JD_BARE
  /\ ~isAnalyzing /\ hasAnalyzed /\ error = NO_ERROR
  /\ title = <<"I","n","t","e","r","n">> /\ intake = <<"1">>
  /\ skills = <<>> /\ locationLabel = <<>> /\ stipend = <<>> /\ perks = <<>>

(***************************************************************************)
(* Properties of the handlers' order (Spec).                                *)
(***************************************************************************)
\* C17: an analysis is in flight exactly while isAnalyzing is set, and a
\* click that starts an analysis happens only when none is in flight: from
\* the start of an analysis until its result is merged and isAnalyzing is
\* reset, no second one starts.
C17_OneAnalysisInFlight ==
  /\ [](isAnalyzing <=> IsDefined(analysisCall))
  /\ [][(ClickAnalyze /\ isAnalyzing') =>
          (~isAnalyzing /\ analysisCall = Undefined)]_vars

\* an analysis is in flight on a form whose Analyze button nothing else
\* disables, after an earlier analysis was merged
C17_SecondAnalysisRunning ==
  /\ isAnalyzing /\ IsDefined(analysisCall)
  /\ hasAnalyzed
  /\ isJDValid /\ ~isLoading /\ mounted
  /\ userActions < MaxUserActions

\* C18: a submission calls createJob first, with the record made from the
\* form; processJob is called only in the step in which createJob has
\* succeeded, with the id of the job just created; the page is left only when
\* processJob has succeeded for that id; and when createJob or processJob
\* fails the error is 'Failed to create job', the page is not left and no
\* processJob call is made.
C18_SubmissionOrder ==
  /\ [](/\ Len(processJobCalls) <= Len(createJobCalls)
        /\ navigated => /\ Len(processJobCalls) >= 1
                        /\ processJobCalls[Len(processJobCalls)] = Len(createJobCalls))
  /\ [][/\ createJobCalls' # createJobCalls =>
             /\ submitPC = "idle"
             /\ createJobCalls' = Append(createJobCalls, jobData)
             /\ UNCHANGED <<processJobCalls, navigated>>
        /\ processJobCalls' # processJobCalls =>
             /\ CreateJobResolved
             /\ processJobCalls' = Append(processJobCalls, Len(createJobCalls))
             /\ ~navigated'
        /\ navigated' # navigated =>
             /\ ProcessJobResolved
             /\ processJobCalls[Len(processJobCalls)] = Len(createJobCalls)
        /\ (CreateJobRejected \/ ProcessJobRejected) =>
             /\ error' = ERR_CREATE_FAILED
             /\ submitPC' = "idle"
             /\ UNCHANGED <<createJobCalls, processJobCalls, navigated>>
        /\ (createJobCalls' # createJobCalls /\ ~company /\ handleSubmit) =>
             /\ error' = ERR_CREATE_FAILED
             /\ submitPC' = "idle"]_vars

\* a first submission failed at createJob with no processJob call, a second
\* one went through createJob and processJob, and the page was left
C18_FailedThenSubmitted ==
  /\ Len(createJobCalls) = 2
  /\ processJobCalls = <<2>>
  /\ navigated
  /\ submitPC = "idle"

C20_EndToEndScenario ==
  (extractInput = Defined(JD_FULL) /\ IsDefined(extractOutput)) =>
    LET out == ValueOf(extractOutput)
    IN  /\ out.title = <<"F","r","o","n","t","e","n","d"," ","D","e","v","e","l","o","p","e","r"," ","I","n","t","e","r","n">>
        /\ arrayIncludes(out.skills, <<"R","e","a","c","t">>)
        /\ arrayIncludes(out.skills, <<"T","y","p","e","s","c","r","i","p","t">>)
        /\ arrayIncludes(out.skills, <<"C","S","S">>)
        /\ out.location = <<"B","a","n","g","a","l","o","r","e">>
        /\ out.intake = 2
        /\ out.stipend = Defined(15000)
        /\ IsDefined(out.perks)
        /\ includes(ValueOf(out.perks), <<"C","e","r","t","i","f","i","c","a","t","e">>)
        /\ includes(ValueOf(out.perks), <<"F","l","e","x","i","b","l","e">>)

\* the end-to-end document was analysed once; its perks are the two named
\* ones and, from the "lor" of Bangalore, a letter of recommendation
C20_EndToEndAnalysed ==
  /\ extractInput = Defined(JD_FULL)
  /\ Len(extractDelays) = 1
  /\ IsDefined(extractOutput)
  /\ ValueOf(extractOutput).skills = <<<<"R","e","a","c","t">>,
     <<"T","y","p","e","s","c","r","i","p","t">>,
     <<"C","S","S">>>>
  /\ ValueOf(extractOutput).perks =
       Defined(<<"C","e","r","t","i","f","i","c","a","t","e",","," ","L","e","t","t","e","r"," ","o","f"," ","R","e","c","o","m","m","e","n","d","a","t","i","o","n",","," ","F","l","e","x","i","b","l","e">>)

\* the keyword table of the title fallback, in its declared order: a row
\* holds when, for each group of `need`, one of the group's words occurs
FallbackTable ==
  << [need |-> <<<<<<"s","o","f","t","w","a","r","e">>>>, <<<<"i","n","t","e","r","n">>>>>>, title |-> <<"S","o","f","t","w","a","r","e"," ","D","e","v","e","l","o","p","m","e","n","t"," ","I","n","t","e","r","n">>],
     [need |-> <<<<<<"f","r","o","n","t","e","n","d">>>>>>, title |-> <<"F","r","o","n","t","e","n","d"," ","D","e","v","e","l","o","p","e","r">>],
     [need |-> <<<<<<"b","a","c","k","e","n","d">>>>>>, title |-> <<"B","a","c","k","e","n","d"," ","D","e","v","e","l","o","p","e","r">>],
     [need |-> <<<<<<"f","u","l","l"," ","s","t","a","c","k">>,
     <<"f","u","l","l","s","t","a","c","k">>>>>>, title |-> <<"F","u","l","l"," ","S","t","a","c","k"," ","D","e","v","e","l","o","p","e","r">>],
     [need |-> <<<<<<"d","a","t","a"," ","a","n","a","l","y","s","t">>>>>>, title |-> <<"D","a","t","a"," ","A","n","a","l","y","s","t">>],
     [need |-> <<<<<<"d","a","t","a"," ","s","c","i","e","n","c","e">>>>>>, title |-> <<"D","a","t","a"," ","S","c","i","e","n","c","e"," ","I","n","t","e","r","n">>],
     [need |-> <<<<<<"m","a","r","k","e","t","i","n","g">>>>>>, title |-> <<"M","a","r","k","e","t","i","n","g"," ","I","n","t","e","r","n">>],
     [need |-> <<<<<<"d","e","s","i","g","n">>>>>>, title |-> <<"D","e","s","i","g","n"," ","I","n","t","e","r","n">>] >>

\* C21: the extracted title is never empty; when no title pattern matches it
\* is the title of the first row of the keyword table that holds for the
\* lower-cased document, and "Intern" when no row holds.
C21_TitleFallback ==
  IsDefined(extractOutput) =>
    LET jd == ValueOf(extractInput)
        lowerJD == toLowerCase(jd)
        out == ValueOf(extractOutput).title
        noPattern == \A k \in 1..Len(titlePatterns) : match(jd, titlePatterns[k]) = NoMatch
        holds(row) == \A g \in 1..Len(row.need) :
                        \E a \in 1..Len(row.need[g]) : includes(lowerJD, row.need[g][a])
        rows == {r \in 1..Len(FallbackTable) : holds(FallbackTable[r])}
        first == CHOOSE r \in rows : \A q \in rows : r <= q
    IN  /\ out # <<>>
        /\ noPattern => out = IF rows = {} THEN <<"I","n","t","e","r","n">> ELSE FallbackTable[first].title

\* a document that names the backend before the frontend, and matches no
\* title pattern, was analysed: the title is that of the frontend row
C21_FrontendRowFirst ==
  /\ extractInput = Defined(<<"b","a","c","k","e","n","d"," ","+"," ","f","r","o","n","t","e","n","d">>)
  /\ IsDefined(extractOutput)
  /\ ValueOf(extractOutput).title = <<"F","r","o","n","t","e","n","d"," ","D","e","v","e","l","o","p","e","r">>

\* C22: the location, the intake and the stipend are each made from the match
\* of the first pattern of their list that matches the document, whatever
\* later patterns match and wherever they match, also when that match gives
\* an empty location; when no pattern of a list matches, the field has its
\* initial value ('' , 1, unset).
C22_FirstPatternWins ==
  IsDefined(extractOutput) =>
    LET jd == ValueOf(extractInput)
        out == ValueOf(extractOutput)
        \* the matches of every pattern of a list, each tried on its own
        all(patterns) == {<<k, match(jd, patterns[k])>> : k \in 1..Len(patterns)}
        matching(ms) == {p \in ms : p[2] # NoMatch}
        earliest(ms) == (CHOOSE p \in matching(ms) : \A q \in matching(ms) : p[1] <= q[1])[2]
    IN  /\ Let(all(locationPatterns), LAMBDA ms :
             out.location =
               IF matching(ms) = {} THEN <<>> ELSE locationFromMatch(earliest(ms)))
        /\ Let(all(intakePatterns), LAMBDA ms :
             out.intake =
               IF matching(ms) = {} THEN 1 ELSE capIntake(intakeFromMatch(earliest(ms))))
        /\ Let(all(stipendPatterns), LAMBDA ms :
             out.stipend =
               IF matching(ms) = {} THEN Undefined
               ELSE Defined(stipendFromMatch(jd, earliest(ms))))

\* a document whose first location pattern captures a blank, and whose
\* second pattern matches a city, was analysed: the location is empty
C22_EmptyWinningLocation ==
  /\ extractInput = Defined(<<"O","f","f","i","c","e",":"," "," ">> \o <<"\n">> \o <<"5","t","h"," ","f","l","o","o","r",","," ","P","u","n","e">>)
  /\ IsDefined(extractOutput)
  /\ ValueOf(extractOutput).location = <<>>
  /\ match(ValueOf(extractInput), locationPatterns[2]) # NoMatch

\* the label of each perk keyword, in the order of perksKeywords
PerkLabels ==
  <<<<"C","e","r","t","i","f","i","c","a","t","e">>,
     <<"L","e","t","t","e","r"," ","O","f"," ","R","e","c","o","m","m","e","n","d","a","t","i","o","n">>,
     <<"L","e","t","t","e","r"," ","o","f"," ","R","e","c","o","m","m","e","n","d","a","t","i","o","n">>,
     <<"F","l","e","x","i","b","l","e">>,
     <<"R","e","m","o","t","e">>,
     <<"W","o","r","k"," ","f","r","o","m"," ","H","o","m","e">>,
     <<"W","o","r","k"," ","F","r","o","m"," ","H","o","m","e">>,
     <<"M","e","n","t","o","r","s","h","i","p">>,
     <<"T","r","a","i","n","i","n","g">>,
     <<"P","P","O"," ","(","P","r","e","-","P","l","a","c","e","m","e","n","t"," ","O","f","f","e","r",")">>,
     <<"P","r","e","-","p","l","a","c","e","m","e","n","t">>,
     <<"B","o","n","u","s">>,
     <<"H","e","a","l","t","h"," ","I","n","s","u","r","a","n","c","e">>,
     <<"S","n","a","c","k","s">>,
     <<"M","e","a","l","s">>,
     <<"T","e","a","m"," ","O","u","t","i","n","g","s">>>>

\* C23: the perks are unset exactly when no perk keyword occurs in the
\* lower-cased document; otherwise they are the labels of the keywords that
\* occur, in keyword order, no label twice, joined with ", "; they are never
\* the empty string.
C23_PerksExtraction ==
  IsDefined(extractOutput) =>
    LET out == ValueOf(extractOutput).perks
        RECURSIVE labelsFrom(_, _)
        labelsFrom(occurring, k) ==
          IF k > Len(perksKeywords) THEN <<>>
          ELSE (IF k \in occurring THEN <<PerkLabels[k]>> ELSE <<>>)
               \o labelsFrom(occurring, k + 1)
    IN  Let(toLowerCase(ValueOf(extractInput)), LAMBDA lowerJD :
        Let({k \in 1..Len(perksKeywords) : includes(lowerJD, perksKeywords[k])},
            LAMBDA occurring :
        Let(labelsFrom(occurring, 1), LAMBDA labels :
          /\ Len(PerkLabels) = Len(perksKeywords)
          /\ (out = Undefined) <=> (occurring = {})
          /\ out # Defined(<<>>)
          /\ \A i, j \in 1..Len(labels) : i # j => labels[i] # labels[j]
          /\ occurring # {} => out = Defined(join(labels, <<","," ">>)))))

\* a document with lor, letter of recommendation, wfh and work from home was
\* analysed: four labels, two of them relabelled
C23_RelabelledPerks ==
  /\ extractInput = Defined(<<"L","O","R"," ","a","n","d"," ","l","e","t","t","e","r"," ","o","f"," ","r","e","c","o","m","m","e","n","d","a","t","i","o","n",","," ","W","F","H"," ","/"," ","w","o","r","k"," ","f","r","o","m"," ","h","o","m","e">>)
  /\ IsDefined(extractOutput)
  /\ ValueOf(extractOutput).perks =
       Defined(<<"L","e","t","t","e","r"," ","O","f"," ","R","e","c","o","m","m","e","n","d","a","t","i","o","n",","," ","L","e","t","t","e","r"," ","o","f"," ","R","e","c","o","m","m","e","n","d","a","t","i","o","n",","," ","W","o","r","k"," ","f","r","o","m"," ","H","o","m","e",","," ","W","o","r","k"," ","F","r","o","m"," ","H","o","m","e">>)

(***************************************************************************)
(* More properties of the form (Spec).                                      *)
(***************************************************************************)
\* C24: the originalJD of every record passed to createJob is, character for
\* character, the job description the form holds when it is submitted.
C24_OriginalJDVerbatim ==
  [][createJobCalls' # createJobCalls =>
       createJobCalls'[Len(createJobCalls')].originalJD = jobDescription]_vars

\* C25: while an analysis is in flight no user event changes the job
\* description or the value of a form field (title, skills, location,
\* intake, stipend, perks).
C25_FormFrozenWhileAnalyzing ==
  [][(isAnalyzing /\ userActions' # userActions) =>
       UNCHANGED <<jobDescription, formValues>>]_vars

\* C26: hasAnalyzed becomes true only when an analysis of the job description
\* the form holds completes without error; every change of the job
\* description leaves hasAnalyzed false and every field value and
\* AI-suggested flag as it was; so hasAnalyzed is true only for a text of at
\* least 100 characters that was analysed and not edited since.
C26_HasAnalyzedTracksJD ==
  /\ [](hasAnalyzed => Len(jobDescription) >= MIN_JD_LENGTH)
  /\ [][/\ (hasAnalyzed' /\ ~hasAnalyzed) =>
             /\ isAnalyzing /\ ~isAnalyzing'
             /\ analysisCall = Defined(jobDescription)
             /\ jobDescription' = jobDescription
             /\ error' # ERR_ANALYZE_FAILED
        /\ jobDescription' # jobDescription =>
             /\ ~hasAnalyzed'
             /\ UNCHANGED formFields]_vars

\* the job description was replaced after an analysis of another text: the
\* suggested title of that analysis is still there and hasAnalyzed is false
C26_EditedAfterAnalysis ==
  /\ jobDescription = JD_OTHER
  /\ title = <<"F","r","o","n","t","e","n","d"," ","D","e","v","e","l","o","p","e","r"," ","I","n","t","e","r","n">> /\ titleSuggested
  /\ ~hasAnalyzed /\ ~isAnalyzing

\* C27: the skill list of the form never holds an entry twice; and an add
\* (Enter or the + button) of a skill that is blank after trimming, or that
\* the list already holds, changes neither the list, nor the skill input,
\* nor the skills AI-suggested flag.
C27_NoDuplicateSkills ==
  /\ [](\A i, j \in 1..Len(skills) : i # j => skills[i] # skills[j])
  /\ [][(AddSkill /\ (trim(skillInput) = <<>> \/ arrayIncludes(skills, trim(skillInput)))) =>
          UNCHANGED <<skills, skillInput, skillsSuggested>>]_vars

\* React is in the skill input and, suggested by the analysis, in the list,
\* after four user events
C27_DuplicateTyped ==
  /\ skillInput = <<"R","e","a","c","t">>
  /\ skills = <<<<"R","e","a","c","t">>,
     <<"T","y","p","e","s","c","r","i","p","t">>,
     <<"C","S","S">>>> /\ skillsSuggested
  /\ userActions = 4
(***************************************************************************)
(* The session: the axios instance `api` with its interceptors, the token  *)
(* functions and logout of authApi, refreshUser and logout of UIProvider.   *)
(***************************************************************************)
\* the tokens a refresh issues (the storage starts with A1, R1), and the
\* users GET /auth/me answers with
AccessTokens == {"A2"}
RefreshTokens == {"R2"}
CompanyTokens == {"K1"}
Users == {[id |-> "u1", token |-> Defined("A1")], [id |-> "u1", token |-> Undefined]}

\* the status of an answer: error.response?.status, 0 when there is no response
Statuses == {200, 401, 500, 0}

\* the requests made in one page
MaxRequests == 2

\* request interceptor: the Authorization header a request leaves with
requestInterceptor(storage) ==
  IF IsDefined(storage.aura_access_token) THEN storage.aura_access_token
  ELSE IF IsDefined(storage.aura_company_token) THEN storage.aura_company_token
  ELSE Undefined

\* api.get / api.post: the config of a new request, handed to the adapter
newRequest(caller, storage) ==
  [caller |-> caller, authorization |-> requestInterceptor(storage),
   _retry |-> FALSE, pc |-> "sent", sent |-> 1, refreshes |-> 0,
   answers |-> <<>>, error |-> "none", returned |-> "pending"]

\* the error of the response the adapter just delivered for r
responseError(r) == IF r.sent = 1 THEN "original" ELSE "retry"

\* a refresh is tried on every 401, retried request or not
shouldRefreshAlways(status, config) == status = 401

\* error.response?.status === 401 && !originalRequest._retry
shouldRefresh(status, config) == status = 401 /\ ~config._retry

\* response interceptor, up to its await or its return: the request, the
\* storage and window.location.href it leaves
interceptResponse(r, status, storage, href) ==
  IF status = 200
  THEN [request |-> [r EXCEPT !.pc = "resolved"], storage |-> storage, href |-> href]
  ELSE IF shouldRefresh(status, r)
  THEN IF IsDefined(storage.aura_refresh_token)
       THEN [request |-> [r EXCEPT !._retry = TRUE, !.pc = "refreshing",
                                   !.refreshes = @ + 1],
             storage |-> storage, href |-> href]
       ELSE [request |-> [r EXCEPT !._retry = TRUE, !.pc = "rejected",
                                   !.error = responseError(r)],
             storage |-> [storage EXCEPT !.aura_access_token = Undefined,
                                         !.aura_company_token = Undefined],
             href |-> "/login"]
  ELSE [request |-> [r EXCEPT !.pc = "rejected", !.error = responseError(r)],
        storage |-> storage, href |-> href]

\* the adapter's answer, noted on the request, goes through the interceptor
responseInterceptor(r, status, storage, href) ==
  interceptResponse([r EXCEPT !.answers = Append(@, status)], status, storage, href)

\* the answers of POST /auth/refresh: rejected, or resolved with an access
\* token and perhaps a new refresh token
RefreshAnswers ==
  {[ok |-> FALSE, accessToken |-> "", refreshToken |-> Undefined]}
  \cup {[ok |-> TRUE, accessToken |-> a, refreshToken |-> n] :
          a \in AccessTokens, n \in {Undefined} \cup {Defined(t) : t \in RefreshTokens}}

\* the storage after the refresh call resolved
storageAfterRefresh(storage, answer) ==
  [storage EXCEPT !.aura_access_token = Defined(answer.accessToken),
                  !.aura_refresh_token =
                     IF IsDefined(answer.refreshToken) THEN answer.refreshToken ELSE @]

\* response interceptor, from the await of the refresh call on
refreshSettled(r, answer, storage, href) ==
  IF answer.ok
  THEN [request |-> [r EXCEPT !.pc = "sent", !.sent = @ + 1,
                              !.authorization =
                                 requestInterceptor(storageAfterRefresh(storage, answer))],
        storage |-> storageAfterRefresh(storage, answer), href |-> href]
  ELSE [request |-> [r EXCEPT !.pc = "rejected", !.error = "refreshError"],
        storage |-> noTokens, href |-> "/login"]

\* clearTokens of authApi
clearTokens(storage) ==
  [storage EXCEPT !.aura_access_token = Undefined, !.aura_refresh_token = Undefined]

settled(r) == r.pc \in {"resolved", "rejected"}

\* a logout that keeps the tokens when the backend request failed
logoutKeepingTokensOnFailure(r, storage) ==
  IF r.pc = "resolved" THEN clearTokens(storage) ELSE storage

\* authApi.logout once api.post('/auth/logout') has settled: catch ignores
\* the error, finally clears the tokens
logout(r, storage) == clearTokens(storage)

\* what the caller does once the promise of api(...) has settled: the
\* request, the storage and state.user it leaves; nothing while it is pending
continuation(r, storage, usr, data) ==
  IF ~settled(r)
  THEN [request |-> r, storage |-> storage, user |-> usr]
  ELSE IF r.caller = "getCurrentUser"
  THEN [request |-> [r EXCEPT !.returned = "resolved"],
        storage |-> IF r.pc = "resolved" THEN storage ELSE clearTokens(storage),
        user |-> IF r.pc = "resolved" THEN Defined(data) ELSE Undefined]
  ELSE IF r.caller = "logout"
  THEN [request |-> [r EXCEPT !.returned = "resolved"],
        storage |-> logout(r, storage), user |-> Undefined]
  ELSE [request |-> [r EXCEPT !.returned = r.pc], storage |-> storage, user |-> usr]

\* !!state.user?.token
isAuthenticated == IsDefined(user) /\ IsDefined(ValueOf(user).token)

unchangedBySession ==
  UNCHANGED <<jobDescription, isAnalyzing, hasAnalyzed, formFields, skillInput,
              error, analysisCall, company, isLoading, submission, userEdited,
              lastMerged, userActions, extractor, provider>>

\* refreshUser of UIProvider (on mount and on focus): getCurrentUser returns
\* null without a request when there is no access token
RefreshUser ==
  /\ Len(requests) < MaxRequests
  /\ IF IsDefined(localStorage.aura_access_token)
     THEN /\ requests' = Append(requests, newRequest("getCurrentUser", localStorage))
          /\ UNCHANGED user
     ELSE /\ user' = Undefined
          /\ UNCHANGED requests
  /\ UNCHANGED <<localStorage, location>>
  /\ unchangedBySession

\* logout of UIProvider: authApi.logout posts /auth/logout
Logout ==
  /\ Len(requests) < MaxRequests
  /\ requests' = Append(requests, newRequest("logout", localStorage))
  /\ UNCHANGED <<localStorage, location, user>>
  /\ unchangedBySession

\* any other call through api
ApiCall ==
  /\ Len(requests) < MaxRequests
  /\ requests' = Append(requests, newRequest("api", localStorage))
  /\ UNCHANGED <<localStorage, location, user>>
  /\ unchangedBySession

\* the adapter delivers the answer to request k: the response interceptor
\* runs, then the caller when the promise has settled
Respond(k, status, data) ==
  /\ requests[k].pc = "sent"
  /\ LET i == responseInterceptor(requests[k], status, localStorage, location)
         c == continuation(i.request, i.storage, user, data)
     IN /\ requests' = [requests EXCEPT ![k] = c.request]
        /\ localStorage' = c.storage
        /\ location' = i.href
        /\ user' = c.user
  /\ unchangedBySession

\* the refresh call of request k settles: the response interceptor goes on,
\* then the caller when the promise has settled
RefreshResponds(k, answer) ==
  /\ requests[k].pc = "refreshing"
  /\ LET i == refreshSettled(requests[k], answer, localStorage, location)
         c == continuation(i.request, i.storage, user, Undefined)
     IN /\ requests' = [requests EXCEPT ![k] = c.request]
        /\ localStorage' = c.storage
        /\ location' = i.href
        /\ user' = c.user
  /\ unchangedBySession

\* the forms stay as they are mounted
formAtRest ==
  /\ jobDescription = <<>> /\ isAnalyzing = FALSE /\ hasAnalyzed = FALSE
  /\ title = <<>> /\ titleSuggested = FALSE
  /\ skillInput = <<>> /\ skills = <<>> /\ skillsSuggested = FALSE
  /\ locationLabel = <<>> /\ locationSuggested = FALSE
  /\ intake = <<>> /\ intakeSuggested = FALSE
  /\ stipend = <<>> /\ stipendSuggested = FALSE
  /\ perks = <<>> /\ perksSuggested = FALSE
  /\ error = NO_ERROR
  /\ analysisCall = Undefined
  /\ company = FALSE /\ isLoading = FALSE
  /\ submitPC = "idle" /\ createJobCalls = <<>> /\ processJobCalls = <<>>
  /\ navigated = FALSE
  /\ userEdited = {} /\ lastMerged = [result |-> Undefined, times |-> 0]
  /\ userActions = 0
  /\ analysisMemo = <<>>
  /\ extractInput = Undefined /\ extractOutput = Undefined /\ extractDelays = <<>>

\* a page load: the storage holds what earlier pages left in it
InitSession ==
  /\ formAtRest /\ providerAtRest
  /\ localStorage \in
       {[aura_access_token |-> a, aura_refresh_token |-> r, aura_company_token |-> c] :
          a \in {Undefined, Defined("A1")}, r \in {Undefined, Defined("R1")},
          c \in {Undefined} \cup {Defined(t) : t \in CompanyTokens}}
  /\ requests = <<>> /\ location = "/" /\ user = Undefined

NextSession ==
  \/ RefreshUser
  \/ Logout
  \/ ApiCall
  \/ \E k \in 1..Len(requests), status \in Statuses, data \in Users :
       Respond(k, status, data)
  \/ \E k \in 1..Len(requests), answer \in RefreshAnswers : RefreshResponds(k, answer)

SpecSession == InitSession /\ [][NextSession]_vars

(***************************************************************************)
(* CompanyProvider: the actions that set isLoading.                         *)
(***************************************************************************)
CompanyActions ==
  {"loginCompany", "registerCompany", "updateCompanyProfile", "createJob",
   "logoutCompany", "verifyEmailOtp", "verifyGst", "processJob", "runMatching",
   "performMatchAction"}

\* the companies and the job lists the backend answers with
Companies == {[id |-> "c1", name |-> "Acme"], [id |-> "c1", name |-> "Acme Labs"]}
JobLists == {<<>>, <<"j1">>}

\* the calls made of the actions of one provider
MaxCompanyCalls == 2

\* state.company?.id
companyId(state) ==
  IF IsDefined(state.company) THEN Defined(ValueOf(state.company).id) ELSE Undefined

\* createJob: if (!state.company?.id) throw new Error('No company session')
throwsNoSession(action, state) ==
  action = "createJob" /\ ~IsDefined(companyId(state))

\* the actions that await refreshJobs() and those that await refreshCompany()
\* after their backend call
awaitsRefreshJobs(action) ==
  action \in {"createJob", "processJob", "runMatching", "performMatchAction"}
awaitsRefreshCompany(action) == action \in {"verifyEmailOtp", "verifyGst"}

\* a catch block that leaves the flag as it is
afterFailureStillLoading(state) == state

\* the catch block of every action: setState(prev => ({ ...prev, isLoading: false }))
afterFailure(state) == [state EXCEPT !.isLoading = FALSE]

\* the state an action leaves when its backend call resolved with `data` and
\* no refresh is awaited
afterSuccess(action, state, data) ==
  IF action = "loginCompany"
  THEN [state EXCEPT !.company = Defined(data), !.jobs = <<>>, !.isLoading = FALSE]
  ELSE IF action = "updateCompanyProfile"
  THEN [state EXCEPT !.company = Defined(data), !.isLoading = FALSE]
  ELSE IF action = "logoutCompany"
  THEN [state EXCEPT !.company = Undefined, !.jobs = <<>>, !.isLoading = FALSE]
  ELSE [state EXCEPT !.isLoading = FALSE]

\* refreshJobs once getCompanyJobs has settled: the list is stored, a
\* failure is logged
afterRefreshJobs(state, answer) ==
  IF IsDefined(answer) THEN [state EXCEPT !.jobs = ValueOf(answer)] ELSE state

\* refreshCompany once its requests have settled: company and jobs are
\* stored, or both are cleared when there is no company or a request failed
afterRefreshCompany(state, answer) ==
  IF IsDefined(answer)
  THEN [state EXCEPT !.company = Defined(ValueOf(answer).company),
                     !.jobs = ValueOf(answer).jobs]
  ELSE [state EXCEPT !.company = Undefined, !.jobs = <<>>]

unchangedByProvider ==
  UNCHANGED <<jobDescription, isAnalyzing, hasAnalyzed, formFields, skillInput,
              error, analysisCall, company, isLoading, submission, userEdited,
              lastMerged, userActions, extractor, session>>

\* an action is called: createJob without a company session throws at once,
\* every other call sets isLoading and starts its backend call
CompanyCall(action) ==
  /\ Len(companyCalls) < MaxCompanyCalls
  /\ IF throwsNoSession(action, companyState)
     THEN /\ companyCalls' =
               Append(companyCalls,
                      [action |-> action, pc |-> "done", outcome |-> "rejected",
                       error |-> "No company session", companyId |-> Undefined,
                       backendCalls |-> 0])
          /\ UNCHANGED companyState
     ELSE /\ companyCalls' =
               Append(companyCalls,
                      [action |-> action, pc |-> "backend", outcome |-> "pending",
                       error |-> "none", companyId |-> companyId(companyState),
                       backendCalls |-> 1])
          /\ companyState' = [companyState EXCEPT !.isLoading = TRUE]
  /\ unchangedByProvider

\* the backend call of call k rejects: the catch block runs and rethrows
BackendRejected(k) ==
  /\ companyCalls[k].pc = "backend"
  /\ companyState' = afterFailure(companyState)
  /\ companyCalls' = [companyCalls EXCEPT ![k].pc = "done", ![k].outcome = "rejected",
                                          ![k].error = "backend"]
  /\ unchangedByProvider

\* the backend call of call k resolves with `data`: the action goes on to its
\* refresh, if it awaits one, or completes. refreshJobs returns without a
\* request when the company id it closed over is missing.
BackendResolved(k, data) ==
  /\ companyCalls[k].pc = "backend"
  /\ LET call == companyCalls[k]
     IN IF awaitsRefreshJobs(call.action) /\ IsDefined(call.companyId)
        THEN /\ companyCalls' = [companyCalls EXCEPT ![k].pc = "refreshJobs",
                                                     ![k].backendCalls = @ + 1]
             /\ UNCHANGED companyState
        ELSE IF awaitsRefreshCompany(call.action)
        THEN /\ companyCalls' = [companyCalls EXCEPT ![k].pc = "refreshCompany",
                                                     ![k].backendCalls = @ + 1]
             /\ UNCHANGED companyState
        ELSE /\ companyCalls' = [companyCalls EXCEPT ![k].pc = "done",
                                                     ![k].outcome = "resolved"]
             /\ companyState' = afterSuccess(call.action, companyState, data)
  /\ unchangedByProvider

\* refreshJobs of call k settles, then the action completes
RefreshJobsSettled(k, answer) ==
  /\ companyCalls[k].pc = "refreshJobs"
  /\ companyState' =
       [afterRefreshJobs(companyState, answer) EXCEPT !.isLoading = FALSE]
  /\ companyCalls' = [companyCalls EXCEPT ![k].pc = "done", ![k].outcome = "resolved"]
  /\ unchangedByProvider

\* refreshCompany of call k settles, then the action completes
RefreshCompanySettled(k, answer) ==
  /\ companyCalls[k].pc = "refreshCompany"
  /\ companyState' =
       [afterRefreshCompany(companyState, answer) EXCEPT !.isLoading = FALSE]
  /\ companyCalls' = [companyCalls EXCEPT ![k].pc = "done", ![k].outcome = "resolved"]
  /\ unchangedByProvider

InitCompany == formAtRest /\ sessionAtRest /\ providerAtRest

NextCompany ==
  \/ \E action \in CompanyActions : CompanyCall(action)
  \/ \E k \in 1..Len(companyCalls) : BackendRejected(k)
  \/ \E k \in 1..Len(companyCalls), data \in Companies : BackendResolved(k, data)
  \/ \E k \in 1..Len(companyCalls),
        answer \in {Undefined} \cup {Defined(js) : js \in JobLists} :
       RefreshJobsSettled(k, answer)
  \/ \E k \in 1..Len(companyCalls),
        answer \in {Undefined}
                   \cup {Defined([company |-> c, jobs |-> js]) :
                           c \in Companies, js \in JobLists} :
       RefreshCompanySettled(k, answer)

SpecCompany == InitCompany /\ [][NextCompany]_vars

(***************************************************************************)
(* Claims about the session.                                                *)
(***************************************************************************)
\* C28: a request answered with 401 makes at most one refresh call and is
\* sent at most twice; a 401 on the retried request is rejected with that
\* answer's error and no further refresh; when the refresh call fails all
\* three tokens are gone and the refresh error is rejected; a first 401 with
\* no refresh token stored removes the access and the company token and
\* rejects the original error, with no refresh call.
C28_RefreshAtMostOnce ==
  /\ [](\A k \in 1..Len(requests) :
          requests[k].refreshes <= 1 /\ requests[k].sent <= 2)
  /\ [][\A k \in 1..Len(requests) :
          LET r == requests[k]
              s == requests'[k]
          IN /\ (r.sent = 2 /\ s.answers = Append(r.answers, 401))
                  => /\ s.pc = "rejected" /\ s.error = "retry"
                     /\ s.refreshes = r.refreshes /\ s.sent = r.sent
             /\ (r.pc = "refreshing" /\ s.pc = "rejected")
                  => /\ localStorage' = noTokens
                     /\ s.error = "refreshError"
             /\ (/\ r.sent = 1 /\ s.answers = Append(r.answers, 401)
                 /\ ~IsDefined(localStorage.aura_refresh_token))
                  => /\ s.pc = "rejected" /\ s.error = "original"
                     /\ s.refreshes = 0
                     /\ localStorage'.aura_access_token = Undefined
                     /\ localStorage'.aura_company_token = Undefined]_vars

\* a request was answered 401, refreshed once, sent again, answered 401 again
\* and rejected, while the company token is still stored
C28_RetryAnswered401 ==
  \E k \in 1..Len(requests) :
    /\ requests[k].answers = <<401, 401>> /\ requests[k].refreshes = 1
    /\ requests[k].pc = "rejected" /\ requests[k].caller = "api"
    /\ IsDefined(localStorage.aura_company_token)

\* C29: the step in which a logout completes leaves neither the access token
\* nor the refresh token in local storage, resolves the logout (it never
\* rejects, whatever became of the backend request), and leaves state.user
\* null and isAuthenticated false.
C29_LogoutClearsTokens ==
  /\ [](\A k \in 1..Len(requests) :
          requests[k].caller = "logout"
            => /\ requests[k].returned # "rejected"
               /\ settled(requests[k]) <=> requests[k].returned = "resolved")
  /\ [][\A k \in 1..Len(requests) :
          (/\ requests[k].caller = "logout"
           /\ requests[k].returned = "pending"
           /\ requests'[k].returned # "pending")
            => /\ requests'[k].returned = "resolved"
               /\ localStorage'.aura_access_token = Undefined
               /\ localStorage'.aura_refresh_token = Undefined
               /\ user' = Undefined
               /\ ~isAuthenticated']_vars

\* a user was fetched, then a logout whose backend request was answered 500
\* completed
C29_LogoutAfterBackendFailure ==
  /\ Len(requests) = 2
  /\ requests[1].caller = "getCurrentUser" /\ requests[1].pc = "resolved"
  /\ requests[2].caller = "logout" /\ requests[2].answers = <<500>>
  /\ requests[2].pc = "rejected" /\ requests[2].returned = "resolved"
  /\ user = Undefined

(***************************************************************************)
(* Claims about CompanyProvider.                                            *)
(***************************************************************************)
\* C30: every call of an action that does not throw at once sets isLoading
\* and makes a backend call; the step in which the call settles leaves
\* isLoading false, resolved or rejected; a rejected call rejects with the
\* error of its backend call and its catch leaves company and jobs as they
\* were; createJob without a company session rejects with 'No company
\* session', leaves the state alone and makes no backend call.
C30_LoadingAlwaysReset ==
  [][/\ \A k \in 1..Len(companyCalls) :
          LET c == companyCalls[k]
              d == companyCalls'[k]
          IN /\ (c.outcome = "pending" /\ d.outcome # "pending")
                  => companyState'.isLoading = FALSE
             /\ (c.outcome = "pending" /\ d.outcome = "rejected")
                  => /\ c.pc = "backend" /\ d.error = "backend"
                     /\ companyState'.company = companyState.company
                     /\ companyState'.jobs = companyState.jobs
     /\ Len(companyCalls') > Len(companyCalls)
          => LET n == companyCalls'[Len(companyCalls')]
             IN IF n.action = "createJob" /\ ~IsDefined(companyState.company)
                THEN /\ n.outcome = "rejected" /\ n.error = "No company session"
                     /\ n.backendCalls = 0
                     /\ companyState' = companyState
                ELSE /\ n.action \in CompanyActions
                     /\ n.outcome = "pending" /\ n.backendCalls = 1
                     /\ companyState'.isLoading = TRUE]_vars

\* a company logged in and createJob failed at the backend: the flag is down
\* and the company is still there
C30_CreateJobFailedAfterLogin ==
  /\ Len(companyCalls) = 2
  /\ companyCalls[1].action = "loginCompany" /\ companyCalls[1].outcome = "resolved"
  /\ companyCalls[2].action = "createJob" /\ companyCalls[2].outcome = "rejected"
  /\ companyCalls[2].error = "backend"
  /\ IsDefined(companyState.company) /\ ~companyState.isLoading

====
